---- MODULE Spec2Model ----
(***************************************************************************)
(* The three-tier query resolution ladder (semantic cache, pattern tier,   *)
(* LLM tier) of QueryOrchestrator.process_query, together with the Redis   *)
(* backed CacheManager it reads and writes.                                *)
(*                                                                         *)
(* Three revisions are in the repository, and the variable `deployment`    *)
(* says which one the running process is:                                  *)
(*   "main"     src/main.py, the single-file application, with its own     *)
(*              patterns, thresholds and request handler;                  *)
(*   "root"     src/api.py with src/cache.py (one Redis command at a       *)
(*              time) and the query orchestrator;                          *)
(*   "backend"  src/backend, the orchestrator with src/backend/cache.py     *)
(*              (pipelined, with memoized embeddings).                     *)
(* The cache functions of src/main.py are those of src/cache.py, line for  *)
(* line.                                                                   *)
(***************************************************************************)
EXTENDS Integers, Sequences, FiniteSets, TLC

VARIABLES
    deployment,       \* the revision that runs: "main", "root" or "backend"
    client,           \* CacheManager.client is set (Redis answered the ping)
    embedding_model,  \* CacheManager.embedding_model is set (the model loaded)
    redis,            \* the Redis keyspace: records and per-tenant index sets
    now,              \* wall clock, in seconds
    memo,             \* lru_cache of get_query_embedding (backend revision)
    workload,         \* who sends requests, and whether they meet faults
    last,             \* the operation whose reply is on its way out, or Idle
    calls,            \* concurrent workers: the call each one is in, or Free
    cleared           \* the cache was cleared, and no store has begun since

vars == <<deployment, client, embedding_model, redis, now, memo, workload, last,
          calls, cleared>>

\* the state of the concurrent workers
conc == <<calls, cleared>>

(***************************************************************************)
(* Bounds of the model.                                                    *)
(***************************************************************************)
MaxTicks == 2         \* the clock stops after MaxTicks steps of TickSeconds
MaxHits == 2          \* a lookup that would push hit_count past it is not taken
MaxRecords == 2       \* a request that would leave more records in Redis is not taken
MaxFaults == 1        \* the faults one request may meet
MaxExpiryHits == 3    \* MaxHits of the workload that follows a record past its expiry

\* Python's None where a string is expected, and a key absent from a dict
None == "None"
\* Optional values that are not strings: Nothing is None, Some(x) is x
Nothing == <<>>
Some(x) == <<x>>
Val(o) == o[1]

(***************************************************************************)
(* Configuration (src/config.py).  Similarities are fixed-point numbers in *)
(* units of 1/10000, so 0.88 is 8800; confidences are in units of 1/100.   *)
(***************************************************************************)
CACHE_EXPIRATION_SECONDS == 3600
SEMANTIC_SIMILARITY_THRESHOLD == 8800
INTENT_CONFIDENCE_THRESHOLD == 80
\* the defaults of the single-file revision (src/main.py)
MAIN_SEMANTIC_SIMILARITY_THRESHOLD == 8000
MAIN_INTENT_CONFIDENCE_THRESHOLD == 70
SimilarityScale == 100 * 100
TickSeconds == CACHE_EXPIRATION_SECONDS \div 2   \* the clock's step
\* the clock's step of the workload that follows a record past its expiry
ExpiryTickSeconds == (2 * CACHE_EXPIRATION_SECONDS) \div 3

Deployments == {"main", "root", "backend"}
Tenants == {"u1", "u2"}

(***************************************************************************)
(* Text.  Strings are sequences of one-character strings.                  *)
(***************************************************************************)
CharAt(s, i) == SubSeq(s, i, i)

UpperChars == "ABCDEFGHIJKLMNOPQRSTUVWXYZ"
LowerChars == "abcdefghijklmnopqrstuvwxyz"

LowerChar(c) ==
    IF \E i \in 1..Len(UpperChars) : CharAt(UpperChars, i) = c
    THEN CharAt(LowerChars, CHOOSE i \in 1..Len(UpperChars) : CharAt(UpperChars, i) = c)
    ELSE c

UpperChar(c) ==
    IF \E i \in 1..Len(LowerChars) : CharAt(LowerChars, i) = c
    THEN CharAt(UpperChars, CHOOSE i \in 1..Len(LowerChars) : CharAt(LowerChars, i) = c)
    ELSE c

RECURSIVE MapChars(_, _, _)
MapChars(s, i, up) ==
    IF i > Len(s) THEN ""
    ELSE (IF up THEN UpperChar(CharAt(s, i)) ELSE LowerChar(CharAt(s, i)))
         \o MapChars(s, i + 1, up)

lower(s) == MapChars(s, 1, FALSE)
upper(s) == MapChars(s, 1, TRUE)

IsSpace(c) == c \in {" ", "\t", "\n"}

strip(s) ==
    LET kept == {i \in 1..Len(s) : ~IsSpace(CharAt(s, i))}
    IN  IF kept = {} THEN ""
        ELSE SubSeq(s, CHOOSE i \in kept : \A j \in kept : i <= j,
                       CHOOSE i \in kept : \A j \in kept : i >= j)

\* a in b, Python's substring test
Contains(b, a) ==
    \E i \in 0..(Len(b) - Len(a)) : SubSeq(b, i + 1, i + Len(a)) = a

(***************************************************************************)
(* The query texts a tenant may send.                                      *)
(***************************************************************************)
QShowAll == "show all records from employees"
QFindWhere == "Find employees where name = Bob"
QListTables == "list tables"

Queries == {QShowAll, QFindWhere, QListTables}

(***************************************************************************)
(* EmbeddingProvider: an opaque function from the normalised text to a     *)
(* fixed-length vector.  The vectors all have length 25, and were chosen   *)
(* so that the pairs of texts are above, exactly at, and below the         *)
(* similarity threshold.                                                   *)
(***************************************************************************)
encode(text) ==
    CASE text = "show all records from employees" -> <<25, 0, 0, 0>>
      [] text = "find employees where name = bob" -> <<24, 7, 0, 0>>
      [] text = "list tables"                     -> <<22, 10, 5, 4>>
      [] OTHER                                    -> <<0, 0, 0, 25>>

RECURSIVE Dot(_, _)
Dot(a, b) ==
    IF a = <<>> \/ b = <<>> THEN 0
    ELSE Head(a) * Head(b) + Dot(Tail(a), Tail(b))

\* the integer square root
Isqrt(n) == CHOOSE r \in 0..n : r * r <= n /\ (r + 1) * (r + 1) > n

Norm(a) == Isqrt(Dot(a, a))

Cosine(dot, norm_a, norm_b) ==
    IF norm_a = 0 \/ norm_b = 0 THEN 0
    ELSE (dot * SimilarityScale) \div (norm_a * norm_b)

\* sklearn's cosine_similarity: the dot product of the L2-normalised vectors
cosine_similarity(a, b) == Cosine(Dot(a, b), Norm(a), Norm(b))

\* hashlib.sha256(query.encode()).hexdigest()[:16] of the raw text
hash16(query) ==
    CASE query = QShowAll    -> "5d0c"
      [] query = QFindWhere  -> "91be"
      [] query = QListTables -> "c27a"
      [] OTHER               -> "e403"

cache_key(user_id, query) == <<"semantic_cache", user_id, hash16(query)>>
\* (for C5) one index for all the tenants
SharedIndexKey(user_id) == <<"semantic_index", "u1">>

index_key(user_id) == <<"semantic_index", user_id>>

CacheKeys == {cache_key(u, q) : u \in Tenants, q \in Queries}
IndexKeys == {index_key(u) : u \in Tenants}

(***************************************************************************)
(* Redis.  A string key holds a value and the time it expires at; a set    *)
(* key holds its members and the time it expires at.  Expired keys are     *)
(* removed as the clock advances (Tick), so every key present is live.     *)
(***************************************************************************)
NoExpiry == 0 - 1

EmptySet == [members |-> {}, exp |-> NoExpiry]

EmptyRedis ==
    [kv  |-> [k \in CacheKeys |-> Nothing],
     idx |-> [k \in IndexKeys |-> EmptySet]]

setex(r, key, ttl, value, t) ==
    [r EXCEPT !.kv[key] = Some([val |-> value, exp |-> t + ttl])]

\* the value under key, or Nothing
get(r, key) == IF r.kv[key] = Nothing THEN Nothing ELSE Some(Val(r.kv[key]).val)

sadd(r, key, member) ==
    [r EXCEPT !.idx[key].members = @ \cup {member}]

expire(r, key, ttl, t) ==
    IF r.idx[key].members = {} THEN r
    ELSE [r EXCEPT !.idx[key].exp = t + ttl]

smembers(r, key) == r.idx[key].members

delete(r, keys) ==
    [kv  |-> [k \in CacheKeys |-> IF k \in keys THEN Nothing ELSE r.kv[k]],
     idx |-> [k \in IndexKeys |-> IF k \in keys THEN EmptySet ELSE r.idx[k]]]

Expired(e, t) == e.exp # NoExpiry /\ e.exp <= t

\* what Redis holds at time t: the keys whose time to live has run out are gone
Purge(r, t) ==
    [kv  |-> [k \in CacheKeys |->
                IF r.kv[k] # Nothing /\ Expired(Val(r.kv[k]), t) THEN Nothing ELSE r.kv[k]],
     idx |-> [k \in IndexKeys |->
                IF Expired(r.idx[k], t) THEN EmptySet ELSE r.idx[k]]]

\* the orders in which Redis may enumerate a set
Orders(S) ==
    {o \in [1..Cardinality(S) -> S] : \A i, j \in 1..Cardinality(S) : i # j => o[i] # o[j]}

(***************************************************************************)
(* SemanticCacheEntry (src/backend/models.py).                             *)
(***************************************************************************)
SemanticCacheEntry(query, embedding, response, timestamp, user_id) ==
    [query |-> query, embedding |-> embedding, response |-> response,
     timestamp |-> timestamp, user_id |-> user_id, hit_count |-> 1]

(***************************************************************************)
(* CacheManager.store_semantic_cache.  `fault` is the number of the first  *)
(* Redis command of the call that raises (0: none does); every exception   *)
(* is caught and the call returns.                                         *)
(*   main, root: 1 setex, 2 sadd, 3 expire, one at a time                  *)
(*   backend: 1 the pipeline's execute, which applies all three or none    *)
(***************************************************************************)
StoreFaults(dep) == IF dep = "backend" THEN 0..1 ELSE 0..3

store_semantic_cache(dep, cl, r, user_id, query, embedding, response, t, fault) ==
    LET cache_entry == SemanticCacheEntry(query, embedding, response, t, user_id)
        key == cache_key(user_id, query)
        ikey == index_key(user_id)
        r1 == setex(r, key, CACHE_EXPIRATION_SECONDS, cache_entry, t)
        r2 == sadd(r1, ikey, key)
        r3 == expire(r2, ikey, CACHE_EXPIRATION_SECONDS, t)
    IN  IF ~cl THEN r
        ELSE IF dep = "backend" THEN (IF fault = 0 THEN r3 ELSE r)
        ELSE CASE fault = 0 -> r3
               [] fault = 1 -> r
               [] fault = 2 -> r1
               [] OTHER     -> r2

(***************************************************************************)
(* CacheManager.find_similar_cached_query.  `order` is the order in which  *)
(* smembers enumerates the tenant's index.  `fault` is the first stage of  *)
(* the call at which Redis raises (0: none does):                          *)
(*   1 smembers, 2 reading the records, 3 writing the hit count back.      *)
(* The result is the new keyspace, the match returned (or Nothing), and    *)
(* the key the matched record was read from.                               *)
(***************************************************************************)
FindFaults == 0..3

NoMatch(r) == [redis |-> r, match |-> Nothing, read_from |-> Nothing]

\* the threshold a revision compares similarities with
similarity_threshold(dep) ==
    IF dep = "main" THEN MAIN_SEMANTIC_SIMILARITY_THRESHOLD
    ELSE SEMANTIC_SIMILARITY_THRESHOLD

\* (for C3) a comparison that lets a similarity equal to the threshold pass
ExceedsOrEquals(similarity, best_similarity, threshold) ==
    similarity > best_similarity /\ similarity >= threshold

Exceeds(similarity, best_similarity, threshold) ==
    similarity > best_similarity /\ similarity > threshold

\* src/cache.py: the test of one record against the best match so far
Better(key, cache_entry, similarity, best_match, threshold) ==
    IF Exceeds(similarity, IF best_match = Nothing THEN 0 ELSE Val(best_match).similarity,
               threshold)
    THEN Some([response |-> cache_entry.response,
               similarity |-> similarity,
               original_query |-> cache_entry.query,
               cache_key |-> key])
    ELSE best_match

\* src/cache.py: the body of the loop over cached_keys
Visit(key, cached_data, query_embedding, best_match, threshold) ==
    IF cached_data = Nothing THEN best_match
    ELSE Better(key, Val(cached_data),
                cosine_similarity(query_embedding, Val(cached_data).embedding),
                best_match, threshold)

\* src/cache.py: the loop over cached_keys, from position i on
RECURSIVE ScanRoot(_, _, _, _, _, _)
ScanRoot(r, order, query_embedding, i, best_match, threshold) ==
    IF i > Len(order) THEN best_match
    ELSE ScanRoot(r, order, query_embedding, i + 1,
                  Visit(order[i], get(r, order[i]), query_embedding, best_match, threshold),
                  threshold)

\* src/cache.py, "Update hit count": the record is read again, and written
\* back with a fresh time to live
HitCounted(r, key, t) ==
    setex(r, key, CACHE_EXPIRATION_SECONDS,
          [Val(get(r, key)) EXCEPT !.hit_count = @ + 1], t)

\* (for C23) a lookup whose failed hit-count update reaches the outer handler
RootFoundUpdateRaises(r, t, fault, best_match) ==
    IF best_match = Nothing \/ fault = 3 THEN NoMatch(r)
    ELSE [redis |-> HitCounted(r, Val(best_match).cache_key, t),
          match |-> best_match,
          read_from |-> Some(Val(best_match).cache_key)]

RootFound(r, t, fault, best_match) ==
    IF best_match = Nothing THEN NoMatch(r)
    ELSE [redis |-> IF fault = 3 THEN r ELSE HitCounted(r, Val(best_match).cache_key, t),
          match |-> best_match,
          read_from |-> Some(Val(best_match).cache_key)]

\* (for C9) a lookup that goes on with what it has when a read raises
FindSimilarDespiteFaults(cl, r, user_id, query_embedding, order, t, fault, threshold) ==
    IF ~cl \/ Len(order) = 0 THEN NoMatch(r)
    ELSE RootFound(r, t, fault, ScanRoot(r, order, query_embedding, 1, Nothing, threshold))

find_similar_root(cl, r, user_id, query_embedding, order, t, fault, threshold) ==
    IF ~cl \/ fault = 1 \/ Len(order) = 0 THEN NoMatch(r)
    ELSE RootFound(r, t, fault,
                   IF fault = 2 THEN Nothing
                   ELSE ScanRoot(r, order, query_embedding, 1, Nothing, threshold))

\* the positions of `order` whose record could be read, in order
RECURSIVE LivePositions(_, _, _)
LivePositions(r, order, i) ==
    IF i > Len(order) THEN <<>>
    ELSE (IF get(r, order[i]) = Nothing THEN <<>> ELSE <<i>>)
         \o LivePositions(r, order, i + 1)

\* (for C4) the first entry read, whatever its similarity
FirstPosition(similarities) == 1

\* numpy's argmax: the first position that holds the maximum
argmax(similarities) ==
    CHOOSE i \in 1..Len(similarities) :
        /\ \A j \in 1..Len(similarities) : similarities[j] <= similarities[i]
        /\ \A j \in 1..(i - 1) : similarities[j] < similarities[i]

\* src/backend/cache.py: the key the incremented entry is written under
WriteBackKey(cached_keys, positions, best_idx) == cached_keys[best_idx]

\* src/backend/cache.py: from "if best_similarity > threshold" on
BackendFound(r, order, t, fault, positions, entries, similarities, best_idx) ==
    IF similarities[best_idx] > SEMANTIC_SIMILARITY_THRESHOLD
    THEN [redis |-> IF fault = 3 THEN r
                    ELSE setex(r, WriteBackKey(order, positions, best_idx),
                               CACHE_EXPIRATION_SECONDS,
                               [entries[best_idx] EXCEPT !.hit_count = @ + 1], t),
          match |-> Some([response |-> entries[best_idx].response,
                          similarity |-> similarities[best_idx],
                          original_query |-> entries[best_idx].query]),
          read_from |-> Some(order[positions[best_idx]])]
    ELSE NoMatch(r)

\* src/backend/cache.py: the vectorized similarity computation
BackendScored(r, order, t, fault, positions, entries, similarities) ==
    BackendFound(r, order, t, fault, positions, entries, similarities,
                 argmax(similarities))

\* src/backend/cache.py: the entries that could be read
BackendRead(r, query_embedding, order, t, fault, positions, entries) ==
    IF Len(entries) = 0 THEN NoMatch(r)
    ELSE BackendScored(r, order, t, fault, positions, entries,
                       [n \in 1..Len(entries) |->
                           cosine_similarity(query_embedding, entries[n].embedding)])

BackendFetched(r, query_embedding, order, t, fault, positions) ==
    BackendRead(r, query_embedding, order, t, fault, positions,
                [n \in 1..Len(positions) |-> Val(get(r, order[positions[n]]))])

find_similar_backend(cl, r, user_id, query_embedding, order, t, fault) ==
    IF ~cl \/ fault \in {1, 2} \/ Len(order) = 0 THEN NoMatch(r)
    ELSE BackendFetched(r, query_embedding, order, t, fault, LivePositions(r, order, 1))

find_similar_cached_query(dep, cl, r, user_id, query_embedding, order, t, fault) ==
    IF dep = "backend"
    THEN find_similar_backend(cl, r, user_id, query_embedding, order, t, fault)
    ELSE find_similar_root(cl, r, user_id, query_embedding, order, t, fault,
                           similarity_threshold(dep))

(***************************************************************************)
(* CacheManager.get_cache_stats.  Faults: 1 smembers, 2 reading records.   *)
(***************************************************************************)
StatsFaults == 0..2

\* list.sort(key=hit_count, reverse=True): stable, highest hit_count first
RECURSIVE SortByHitCount(_)
SortByHitCount(entries) ==
    IF entries = <<>> THEN <<>>
    ELSE LET i == CHOOSE i \in 1..Len(entries) :
                    /\ \A j \in 1..Len(entries) : entries[j].hit_count <= entries[i].hit_count
                    /\ \A j \in 1..(i - 1) : entries[j].hit_count < entries[i].hit_count
         IN  <<entries[i]>> \o
             SortByHitCount(SubSeq(entries, 1, i - 1) \o SubSeq(entries, i + 1, Len(entries)))

response_type(response) ==
    IF "action" \in DOMAIN response THEN response.action ELSE "query"

\* the line of the statistics for one record
StatsEntry(cache_entry) ==
    [query |-> cache_entry.query,
     hit_count |-> cache_entry.hit_count,
     timestamp |-> cache_entry.timestamp,
     response_type |-> response_type(cache_entry.response)]

StatsEntries(r, order, positions) ==
    [n \in 1..Len(positions) |-> StatsEntry(Val(get(r, order[positions[n]])))]

\* (for C22) statistics that list the records as Redis enumerated them
StatsUnsorted(dep, cl, r, user_id, order, fault) ==
    IF ~cl THEN [error |-> "Cache not available"]
    ELSE IF fault = 1 \/ (fault = 2 /\ dep = "backend")
    THEN [error |-> "Failed to retrieve cache statistics"]
    ELSE [total_cached_queries |-> Len(order),
          cache_entries |->
              StatsEntries(r, order, IF fault = 2 THEN <<>> ELSE LivePositions(r, order, 1))]

get_cache_stats(dep, cl, r, user_id, order, fault) ==
    IF ~cl THEN [error |-> "Cache not available"]
    ELSE IF fault = 1 \/ (fault = 2 /\ dep = "backend")
    THEN [error |-> "Failed to retrieve cache statistics"]
    ELSE [total_cached_queries |-> Len(order),
          cache_entries |->
              SortByHitCount(StatsEntries(r, order,
                  IF fault = 2 THEN <<>> ELSE LivePositions(r, order, 1)))]

(***************************************************************************)
(* CacheManager.clear_user_cache.  Faults: 1 smembers, 2 deleting the      *)
(* records, 3 deleting the index (the backend deletes both in one          *)
(* pipeline, stage 2).  The result is the new keyspace and the reply.      *)
(***************************************************************************)
ClearFaults(dep) == IF dep = "backend" THEN 0..2 ELSE 0..3

\* (for C21) a clearing that sends delete with no key when the index is empty
ClearUnguarded(dep, cl, r, user_id, fault) ==
    LET cached_keys == smembers(r, index_key(user_id))
        r1 == delete(r, cached_keys)
        r2 == delete(r1, {index_key(user_id)})
        failed == [error |-> "Failed to clear cache"]
    IN  IF ~cl THEN [redis |-> r, reply |-> [error |-> "Cache not available"]]
        ELSE IF fault \in {1, 2} \/ (dep # "backend" /\ cached_keys = {})
        THEN [redis |-> r, reply |-> failed]
        ELSE IF fault = 3 THEN [redis |-> r1, reply |-> failed]
        ELSE [redis |-> r2,
              reply |-> [cleared_count |-> Cardinality(cached_keys)]]

clear_user_cache(dep, cl, r, user_id, fault) ==
    LET cached_keys == smembers(r, index_key(user_id))
        r1 == delete(r, cached_keys)
        r2 == delete(r1, {index_key(user_id)})
        failed == [error |-> "Failed to clear cache"]
    IN  IF ~cl THEN [redis |-> r, reply |-> [error |-> "Cache not available"]]
        ELSE IF fault \in {1, 2} THEN [redis |-> r, reply |-> failed]
        ELSE IF fault = 3 THEN [redis |-> r1, reply |-> failed]
        ELSE [redis |-> r2,
              reply |-> [cleared_count |-> Cardinality(cached_keys)]]

(***************************************************************************)
(* Regular expressions, as Python's re module matches them: backtracking,  *)
(* alternatives tried left to right, quantifiers greedy.  Match gives the  *)
(* ways `re` matches s from offset i, in the order re tries them, each     *)
(* with the offset it ends at and the groups captured so far.              *)
(***************************************************************************)
Lit(s) == [t |-> "lit", s |-> s]
Many(c, min) == [t |-> "many", c |-> c, min |-> min]   \* c+ (min 1) or c* (min 0)
Opt(x) == [t |-> "opt", x |-> x]
Alt(xs) == [t |-> "alt", xs |-> xs]
Cat(xs) == [t |-> "cat", xs |-> xs]
Grp(n, x) == [t |-> "grp", n |-> n, x |-> x]
Bol == [t |-> "bol"]
Eol == [t |-> "eol"]

Digits == "0123456789"

InClass(c, ch) ==
    CASE c = "w"  -> \/ Contains(LowerChars, ch) \/ Contains(UpperChars, ch)
                     \/ Contains(Digits, ch) \/ ch = "_"
      [] c = "d"  -> Contains(Digits, ch)
      [] c = "s"  -> IsSpace(ch)
      [] c = "nq" -> ch \notin {"'", "\""}
      [] OTHER    -> FALSE

\* the length of the longest run of characters of class c from offset i
RECURSIVE Run(_, _, _)
Run(c, s, i) ==
    IF i < Len(s) /\ InClass(c, CharAt(s, i + 1)) THEN 1 + Run(c, s, i + 1) ELSE 0

RECURSIVE Match(_, _, _, _), MatchAlt(_, _, _, _), MatchCat(_, _, _), MatchGrp(_, _, _, _)
Match(re, s, i, caps) ==
    CASE re.t = "lit" ->
            IF /\ i + Len(re.s) <= Len(s)
               /\ lower(SubSeq(s, i + 1, i + Len(re.s))) = lower(re.s)
            THEN <<[e |-> i + Len(re.s), c |-> caps]>> ELSE <<>>
      [] re.t = "many" ->
            LET n == Run(re.c, s, i)
            IN  [k \in 1..(n - re.min + 1) |-> [e |-> i + n - k + 1, c |-> caps]]
      [] re.t = "opt" -> Match(re.x, s, i, caps) \o <<[e |-> i, c |-> caps]>>
      [] re.t = "alt" -> MatchAlt(re.xs, s, i, caps)
      [] re.t = "cat" -> MatchCat(re.xs, s, <<[e |-> i, c |-> caps]>>)
      [] re.t = "grp" -> MatchGrp(re.n, Match(re.x, s, i, caps), s, i)
      [] re.t = "bol" -> IF i = 0 THEN <<[e |-> i, c |-> caps]>> ELSE <<>>
      [] re.t = "eol" ->
            IF i = Len(s) \/ (i = Len(s) - 1 /\ CharAt(s, Len(s)) = "\n")
            THEN <<[e |-> i, c |-> caps]>> ELSE <<>>

MatchAlt(xs, s, i, caps) ==
    IF xs = <<>> THEN <<>>
    ELSE Match(Head(xs), s, i, caps) \o MatchAlt(Tail(xs), s, i, caps)

\* the parts xs matched one after the other, from each of the states `from`
MatchCat(xs, s, from) ==
    IF from = <<>> THEN <<>>
    ELSE IF xs = <<>> THEN from
    ELSE MatchCat(Tail(xs), s, Match(Head(xs), s, Head(from).e, Head(from).c))
         \o MatchCat(xs, s, Tail(from))

MatchGrp(n, found, s, i) ==
    IF found = <<>> THEN <<>>
    ELSE <<[e |-> Head(found).e,
            c |-> [Head(found).c EXCEPT ![n] = SubSeq(s, i + 1, Head(found).e)]]>>
         \o MatchGrp(n, Tail(found), s, i)

\* re.search: the first way to match at the leftmost offset that has one;
\* Nothing, or the captured groups
search(re, groups, s) ==
    LET none == [n \in 1..groups |-> None]
        starts == {i \in 0..Len(s) : Match(re, s, i, none) # <<>>}
        first == CHOOSE i \in starts : \A j \in starts : i <= j
    IN  IF starts = {} THEN Nothing
        ELSE Some(Head(Match(re, s, first, none)).c)

\* str.replace(old, new)
RECURSIVE replace(_, _, _)
replace(s, old, new) ==
    IF Len(s) < Len(old) \/ old = "" THEN s
    ELSE IF SubSeq(s, 1, Len(old)) = old
    THEN new \o replace(SubSeq(s, Len(old) + 1, Len(s)), old, new)
    ELSE CharAt(s, 1) \o replace(SubSeq(s, 2, Len(s)), old, new)

\* str.format with named fields: one pass over the template
RECURSIVE format(_, _)
format(template, fields) ==
    IF template = "" THEN ""
    ELSE IF CharAt(template, 1) = "{"
    THEN LET close == CHOOSE j \in 2..Len(template) :
                        /\ CharAt(template, j) = "}"
                        /\ \A k \in 2..(j - 1) : CharAt(template, k) # "}"
         IN  fields[SubSeq(template, 2, close - 1)]
             \o format(SubSeq(template, close + 1, Len(template)), fields)
    ELSE CharAt(template, 1) \o format(SubSeq(template, 2, Len(template)), fields)

startswith(s, prefix) == Len(prefix) <= Len(s) /\ SubSeq(s, 1, Len(prefix)) = prefix

(***************************************************************************)
(* IntentDetectionService.INTENT_PATTERNS, in declaration order.  `regex`  *)
(* is the parsed form of `pattern`; confidence_score is in hundredths.     *)
(***************************************************************************)
Spaces == Many("s", 1)
Word == Many("w", 1)
OptAll == Opt(Cat(<<Lit("all"), Spaces>>))
Plural(w) == Cat(<<Lit(w), Opt(Lit("s"))>>)
OptQuote == Opt(Alt(<<Lit("'"), Lit("\"")>>))

IntentPattern(pattern, regex, groups, table_hint, sql_template, confidence_score) ==
    [pattern |-> pattern, regex |-> regex, groups |-> groups, table_hint |-> table_hint,
     sql_template |-> sql_template, confidence_score |-> confidence_score]

INTENT_PATTERNS == <<
    IntentPattern("^(?:list|show|get|find)\\s+(?:all\\s+)?([\\w_]+)$",
        Cat(<<Bol, Alt(<<Lit("list"), Lit("show"), Lit("get"), Lit("find")>>), Spaces,
              OptAll, Grp(1, Word), Eol>>),
        1, "\\1", "SELECT * FROM {table} LIMIT 100;", 95),
    IntentPattern("show\\s+(?:all\\s+)?(?:records?|rows?|data)\\s+from\\s+(\\w+)",
        Cat(<<Lit("show"), Spaces, OptAll,
              Alt(<<Plural("record"), Plural("row"), Lit("data")>>), Spaces,
              Lit("from"), Spaces, Grp(1, Word)>>),
        1, "\\1", "SELECT * FROM {table} LIMIT 100;", 90),
    IntentPattern("count\\s+(?:records?|rows?)\\s+in\\s+(\\w+)",
        Cat(<<Lit("count"), Spaces, Alt(<<Plural("record"), Plural("row")>>), Spaces,
              Lit("in"), Spaces, Grp(1, Word)>>),
        1, "\\1", "SELECT COUNT(*) as count FROM {table};", 90),
    IntentPattern("list\\s+(?:all\\s+)?(?:tables?|schemas?)",
        Cat(<<Lit("list"), Spaces, OptAll, Alt(<<Plural("table"), Plural("schema")>>)>>),
        0, "", "LIST_TABLES", 95),
    IntentPattern("(?:find|search|get)\\s+(\\w+)\\s+where\\s+(\\w+)\\s*=\\s*['\\\"]?([^'\\\"]+)['\\\"]?",
        Cat(<<Alt(<<Lit("find"), Lit("search"), Lit("get")>>), Spaces, Grp(1, Word), Spaces,
              Lit("where"), Spaces, Grp(2, Word), Many("s", 0), Lit("="), Many("s", 0),
              OptQuote, Grp(3, Many("nq", 1)), OptQuote>>),
        3, "\\1", "SELECT * FROM {table} WHERE {column} ILIKE '{value}' LIMIT 50;", 80),
    IntentPattern("(?:top|first)\\s+(\\d+)\\s+(?:records?|rows?)\\s+from\\s+(\\w+)",
        Cat(<<Alt(<<Lit("top"), Lit("first")>>), Spaces, Grp(1, Many("d", 1)), Spaces,
              Alt(<<Plural("record"), Plural("row")>>), Spaces, Lit("from"), Spaces,
              Grp(2, Word)>>),
        2, "\\2", "SELECT * FROM {table} LIMIT {limit};", 85)
>>

(***************************************************************************)
(* A TenantSchemaView: the databases of a tenant in the order the          *)
(* credential store lists them, each with its tables in order.             *)
(***************************************************************************)
Database(db, tables) == [db |-> db, tables |-> tables]

SchemaSales == <<Database("sales", <<"employees", "users">>)>>
Schemas == {<<>>, SchemaSales}

RECURSIVE AllTables(_)
AllTables(all_schemas) ==
    IF all_schemas = <<>> THEN <<>>
    ELSE [n \in 1..Len(Head(all_schemas).tables) |->
             [db |-> Head(all_schemas).db, table |-> Head(all_schemas).tables[n]]]
         \o AllTables(Tail(all_schemas))

\* the first position of seq that satisfies Test, or 0
FirstWhere(seq, Test(_)) ==
    IF \E i \in 1..Len(seq) : Test(seq[i])
    THEN CHOOSE i \in 1..Len(seq) : Test(seq[i]) /\ \A j \in 1..(i - 1) : ~Test(seq[j])
    ELSE 0

\* table_hint with \1, \2, ... replaced by the groups, in turn
RECURSIVE FillHint(_, _, _)
FillHint(table_hint, groups, i) ==
    IF i > Len(groups) THEN table_hint
    ELSE FillHint(replace(table_hint, "\\" \o ToString(i), groups[i]), groups, i + 1)

\* (for C27) a table is taken only if its name is the hint
IntentForExactTable(pattern, groups, query_lower, all_schemas) ==
    LET named(d) == Contains(query_lower, lower(d.db))
        db_pos == FirstWhere(all_schemas, named)
        db_name == IF db_pos # 0 THEN all_schemas[db_pos].db
                   ELSE IF all_schemas # <<>> THEN all_schemas[1].db ELSE None
        table_hint == IF pattern.table_hint # "" /\ Len(groups) > 0
                      THEN FillHint(pattern.table_hint, groups, 1)
                      ELSE pattern.table_hint
        all_tables == AllTables(all_schemas)
        fits(e) == lower(e.table) = lower(table_hint)
        pos == FirstWhere(all_tables, fits)
        sql_query == format(pattern.sql_template,
                        [table |-> all_tables[pos].table,
                         column |-> IF Len(groups) >= 2 THEN groups[2] ELSE "id",
                         value |-> IF Len(groups) >= 3 THEN groups[3] ELSE "",
                         limit |-> IF startswith(pattern.pattern, "(?:top|first)")
                                   THEN groups[1] ELSE "100"])
    IN  IF pattern.sql_template = "LIST_TABLES"
        THEN Some([action |-> "list_tables", db |-> db_name,
                   confidence |-> pattern.confidence_score, source |-> "intent_detection"])
        ELSE IF pos # 0
        THEN Some([db |-> all_tables[pos].db, table |-> all_tables[pos].table,
                   query |-> sql_query, confidence |-> pattern.confidence_score,
                   source |-> "intent_detection"])
        ELSE Nothing

\* (for C28) list-tables always takes the first database
IntentForFirstAlias(pattern, groups, query_lower, all_schemas) ==
    LET named(d) == Contains(query_lower, lower(d.db))
        db_pos == FirstWhere(all_schemas, named)
        db_name == IF all_schemas # <<>> THEN all_schemas[1].db ELSE None
        table_hint == IF pattern.table_hint # "" /\ Len(groups) > 0
                      THEN FillHint(pattern.table_hint, groups, 1)
                      ELSE pattern.table_hint
        all_tables == AllTables(all_schemas)
        fits(e) == \/ Contains(lower(e.table), lower(table_hint))
                   \/ Contains(lower(table_hint), lower(e.table))
        pos == FirstWhere(all_tables, fits)
        sql_query == format(pattern.sql_template,
                        [table |-> all_tables[pos].table,
                         column |-> IF Len(groups) >= 2 THEN groups[2] ELSE "id",
                         value |-> IF Len(groups) >= 3 THEN groups[3] ELSE "",
                         limit |-> IF startswith(pattern.pattern, "(?:top|first)")
                                   THEN groups[1] ELSE "100"])
    IN  IF pattern.sql_template = "LIST_TABLES"
        THEN Some([action |-> "list_tables", db |-> db_name,
                   confidence |-> pattern.confidence_score, source |-> "intent_detection"])
        ELSE IF pos # 0
        THEN Some([db |-> all_tables[pos].db, table |-> all_tables[pos].table,
                   query |-> sql_query, confidence |-> pattern.confidence_score,
                   source |-> "intent_detection"])
        ELSE Nothing

\* the body of the loop of detect_intent for one pattern that matched:
\* the intent returned, or Nothing when the loop goes on to the next pattern
IntentFor(pattern, groups, query_lower, all_schemas) ==
    LET named(d) == Contains(query_lower, lower(d.db))
        db_pos == FirstWhere(all_schemas, named)
        db_name == IF db_pos # 0 THEN all_schemas[db_pos].db
                   ELSE IF all_schemas # <<>> THEN all_schemas[1].db ELSE None
        table_hint == IF pattern.table_hint # "" /\ Len(groups) > 0
                      THEN FillHint(pattern.table_hint, groups, 1)
                      ELSE pattern.table_hint
        all_tables == AllTables(all_schemas)
        fits(e) == \/ Contains(lower(e.table), lower(table_hint))
                   \/ Contains(lower(table_hint), lower(e.table))
        pos == FirstWhere(all_tables, fits)
        sql_query == format(pattern.sql_template,
                        [table |-> all_tables[pos].table,
                         column |-> IF Len(groups) >= 2 THEN groups[2] ELSE "id",
                         value |-> IF Len(groups) >= 3 THEN groups[3] ELSE "",
                         limit |-> IF startswith(pattern.pattern, "(?:top|first)")
                                   THEN groups[1] ELSE "100"])
    IN  IF pattern.sql_template = "LIST_TABLES"
        THEN Some([action |-> "list_tables", db |-> db_name,
                   confidence |-> pattern.confidence_score, source |-> "intent_detection"])
        ELSE IF pos # 0
        THEN Some([db |-> all_tables[pos].db, table |-> all_tables[pos].table,
                   query |-> sql_query, confidence |-> pattern.confidence_score,
                   source |-> "intent_detection"])
        ELSE Nothing

\* (for C25, C26) a loop that ends at the first pattern whose regex matches
RECURSIVE DetectFirstMatch(_, _, _, _)
DetectFirstMatch(patterns, n, query_lower, all_schemas) ==
    IF n > Len(patterns) THEN Nothing
    ELSE LET match == search(patterns[n].regex, patterns[n].groups, query_lower)
         IN  IF match # Nothing
             THEN IntentFor(patterns[n], Val(match), query_lower, all_schemas)
             ELSE DetectFirstMatch(patterns, n + 1, query_lower, all_schemas)

\* the loop over INTENT_PATTERNS, from pattern number n on
RECURSIVE DetectFrom(_, _, _, _)
DetectFrom(patterns, n, query_lower, all_schemas) ==
    IF n > Len(patterns) THEN Nothing
    ELSE LET match == search(patterns[n].regex, patterns[n].groups, query_lower)
             intent == IntentFor(patterns[n], Val(match), query_lower, all_schemas)
         IN  IF match # Nothing /\ intent # Nothing THEN intent
             ELSE DetectFrom(patterns, n + 1, query_lower, all_schemas)

detect_intent(query, all_schemas) ==
    DetectFrom(INTENT_PATTERNS, 1, strip(lower(query)), all_schemas)

\* src/main.py: the patterns of the single-file revision, which lacks the
\* first pattern and compares with = where the service compares with ILIKE
MAIN_INTENT_PATTERNS == <<
    INTENT_PATTERNS[2], INTENT_PATTERNS[3], INTENT_PATTERNS[4],
    [INTENT_PATTERNS[5] EXCEPT
        !.sql_template = "SELECT * FROM {table} WHERE {column} = '{value}' LIMIT 50;"],
    INTENT_PATTERNS[6]
>>

detect_intent_with_patterns(query, all_schemas) ==
    DetectFrom(MAIN_INTENT_PATTERNS, 1, strip(lower(query)), all_schemas)

(***************************************************************************)
(* CacheManager.get_query_embedding.  encode_ok: the model's encode call   *)
(* returns (it raises otherwise).  The backend revision wraps the method   *)
(* in lru_cache, keyed by the raw text: `cached` is what the cache holds   *)
(* for the text ("unset", "vector" or "None").  The result is the          *)
(* embedding (Nothing for None) and what the cache holds afterwards.       *)
(***************************************************************************)
\* self.embedding_model.encode([query.lower().strip()])[0], for each text
Encoded == [q \in Queries |-> encode(strip(lower(q)))]

Computed(model, query, encode_ok) ==
    IF ~model \/ ~encode_ok THEN Nothing ELSE Encoded[query]

get_query_embedding(dep, model, cached, query, encode_ok) ==
    LET fresh == Computed(model, query, encode_ok)
    IN  IF dep # "backend" THEN [embedding |-> fresh, cached |-> cached]
        ELSE IF cached = "None" THEN [embedding |-> Nothing, cached |-> cached]
        ELSE IF cached = "vector"
        THEN [embedding |-> Encoded[query], cached |-> cached]
        ELSE [embedding |-> fresh,
              cached |-> IF fresh = Nothing THEN "None" ELSE "vector"]

(***************************************************************************)
(* Dictionaries are records; d[k] = v overrides, as assignment does.       *)
(***************************************************************************)
DictSet(d, k, v) == (k :> v) @@ d
\* dict.get(k)
Get(d, k) == IF k \in DOMAIN d THEN d[k] ELSE None
\* the empty dict
EmptyDict == <<>>

Returned(response) == [ok |-> TRUE, response |-> response]
Raised(message) == [ok |-> FALSE, error |-> message]

(***************************************************************************)
(* QueryProcessingService.  env is the condition of the databases while a  *)
(* request is executed: creds_up, the credential store can be reached;     *)
(* target_up, the tenant's database accepts the connection and runs the    *)
(* statement.  The tenant has credentials for the aliases of its schema.   *)
(***************************************************************************)
Envs == [creds_up : BOOLEAN, target_up : BOOLEAN]
EnvUp == [creds_up |-> TRUE, target_up |-> TRUE]

Aliases(all_schemas) == {all_schemas[i].db : i \in 1..Len(all_schemas)}

TablesOf(all_schemas, db_name) ==
    (CHOOSE d \in {all_schemas[i] : i \in 1..Len(all_schemas)} : d.db = db_name).tables

\* src/backend/database.py: a psycopg2 error is printed and [] returned
get_all_table_names(all_schemas, db_name, env) ==
    IF env.target_up THEN TablesOf(all_schemas, db_name) ELSE <<>>

\* the rows a statement returns from a tenant's database
Rows(user_id, db_name, sql_query) == <<[tenant |-> user_id, db |-> db_name]>>

process_list_tables_request(user_id, db_name, all_schemas, env) ==
    IF ~env.creds_up THEN Raised("could not connect to server")
    ELSE IF db_name \notin Aliases(all_schemas)
    THEN Raised("Database '" \o db_name \o "' not found or you lack access.")
    ELSE Returned([inferred_db_name |-> db_name, action |-> "list_tables",
                   data |-> get_all_table_names(all_schemas, db_name, env)])

process_sql_query_request(user_id, inferred_db_name, inferred_table, sql_query, all_schemas, env) ==
    IF ~env.creds_up THEN Raised("could not connect to server")
    ELSE IF inferred_db_name \notin Aliases(all_schemas)
    THEN Raised("Database configuration '" \o inferred_db_name \o "' not found.")
    ELSE IF ~env.target_up THEN Raised("Error executing SQL query: database error")
    ELSE Returned([inferred_db_name |-> inferred_db_name,
                   inferred_table |-> inferred_table,
                   sql_query |-> sql_query,
                   rows_returned |-> Len(Rows(user_id, inferred_db_name, sql_query)),
                   data |-> Rows(user_id, inferred_db_name, sql_query)])

\* the if / elif / else that runs a resolved intent, in both tiers
Execute(user_id, intent, all_schemas, env, unknown) ==
    IF Get(intent, "action") = "list_tables"
    THEN process_list_tables_request(user_id, Get(intent, "db"), all_schemas, env)
    ELSE IF "query" \in DOMAIN intent
    THEN process_sql_query_request(user_id, Get(intent, "db"), Get(intent, "table"),
                                   intent.query, all_schemas, env)
    ELSE Raised(unknown)

\* whether the database did what the request asked of it: the statement ran,
\* or the table names were read
Succeeded(intent, result, env) == result.ok /\ env.target_up

(***************************************************************************)
(* The LLM tier (src/test.py).  A reply of the model is the JSON object    *)
(* found in its text (Some(dict)), or Nothing when the text holds none or  *)
(* it does not parse.                                                      *)
(***************************************************************************)
dangerous_keywords == <<"DROP", "DELETE", "UPDATE", "INSERT", "ALTER", "CREATE", "TRUNCATE">>

Dangerous(query) ==
    \E i \in 1..Len(dangerous_keywords) : Contains(upper(query), dangerous_keywords[i])

MissingKeys(parsed) == {"db", "table", "query"} \ DOMAIN parsed

\* (for C10) a validation that passes on whatever JSON object it finds
ValidateNothing(raw_response) ==
    IF raw_response = Nothing THEN EmptyDict ELSE Val(raw_response)

validate_and_clean_response(raw_response) ==
    LET parsed == Val(raw_response)
    IN  IF raw_response = Nothing THEN EmptyDict
        ELSE IF DOMAIN parsed = {} THEN EmptyDict
        ELSE IF Get(parsed, "action") = "list_tables"
        THEN (IF "db" \notin DOMAIN parsed THEN EmptyDict ELSE parsed)
        ELSE IF "query" \in DOMAIN parsed
        THEN (IF MissingKeys(parsed) # {} THEN EmptyDict
              ELSE IF Dangerous(parsed.query) THEN EmptyDict
              ELSE parsed)
        ELSE EmptyDict

\* What the LLM tier can meet: the module cannot be imported (no API key),
\* the HTTP call fails on every attempt, or the model replies.
SelectAll == "SELECT * FROM employees LIMIT 100;"

LLMReplies ==
    {[kind |-> "import_error"], [kind |-> "connection_error"]} \cup
    {[kind |-> "content", raw |-> raw] : raw \in
        {Nothing,
         Some([action |-> "list_tables", db |-> "sales"]),
         Some([action |-> "list_tables"]),
         Some([action |-> "describe", db |-> "sales"]),
         Some([db |-> "sales", table |-> "employees", query |-> SelectAll]),
         Some([db |-> "sales", query |-> SelectAll]),
         Some([db |-> "nodb", table |-> "employees", query |-> SelectAll]),
         Some([db |-> "sales", table |-> "employees", query |-> "drop table employees;"]),
         Some([action |-> "list_tables", db |-> "sales", query |-> "Delete from employees;"])}}

\* llmcall: the validated reply as JSON text, "{}" when the call failed;
\* process_with_llm parses the text back into the same dict
llmcall(reply) ==
    IF reply.kind = "connection_error" THEN EmptyDict
    ELSE validate_and_clean_response(reply.raw)

process_with_llm(reply) ==
    IF reply.kind = "import_error"
    THEN Raised("Error calling LLM or parsing its response: OPENROUTER_API_KEY not found")
    ELSE Returned(llmcall(reply))

(***************************************************************************)
(* QueryOrchestrator.process_query.  c is the state the request runs in    *)
(* (deployment, client, embedding_model, redis, memo, now).  What the      *)
(* request meets on its way is drawn where the code uses it, and kept in   *)
(* the field `in` of the request:                                          *)
(*   store_up     the credential store answers get_all_user_db_schemas     *)
(*   schema       what get_all_user_db_schemas returns                     *)
(*   encode_ok    the embedding model's encode call returns                *)
(*   order        the order smembers enumerates the tenant's index in      *)
(*   find_fault   the fault of the cache lookup                            *)
(*   pattern_env  the databases while the pattern tier executes            *)
(*   llm          what the LLM tier meets                                  *)
(*   llm_env      the databases while the LLM tier executes                *)
(*   store_fault  the fault of the cache write                             *)
(* A request t is a record: where it is in process_query (at), the         *)
(* keyspace and memo as it has left them, and what it has done: the calls  *)
(* made in order, the embedding, the lookup's result, the intent detected, *)
(* each execution with whether the database really did the work, the       *)
(* LLM's validated output; and, once it is "done", ok with the response    *)
(* returned or the message of the exception raised.  Each step below maps  *)
(* a request to the requests it can become; a request that is not at the   *)
(* step passes through.  A request meets at most MaxFaults faults (an      *)
(* encode call that raises, a Redis command that raises, a database that   *)
(* is down).                                                               *)
(***************************************************************************)
Detected ==
    [main |-> [q \in Queries |-> [s \in Schemas |-> detect_intent_with_patterns(q, s)]],
     service |-> [q \in Queries |-> [s \in Schemas |-> detect_intent(q, s)]]]
\* and process_with_llm for each thing the LLM tier can meet
Answered == [l \in LLMReplies |-> process_with_llm(l)]

DefaultIn ==
    [store_up |-> TRUE,
     schema |-> SchemaSales, encode_ok |-> TRUE, order |-> <<>>, find_fault |-> 0,
     pattern_env |-> EnvUp, llm |-> [kind |-> "connection_error"], llm_env |-> EnvUp,
     store_fault |-> 0]

FaultFields == {"schema", "encode_ok", "find_fault", "pattern_env", "llm_env", "store_fault"}

Faults(in) == Cardinality({f \in FaultFields : in[f] # DefaultIn[f]})

\* the values an input may take: all of them while a fault is still allowed
May(c, in, nominal, all) ==
    IF c.faults /\ Faults(in) < MaxFaults THEN all ELSE {nominal}

\* the threshold a revision compares confidences with
confidence_threshold(dep) ==
    IF dep = "main" THEN MAIN_INTENT_CONFIDENCE_THRESHOLD
    ELSE INTENT_CONFIDENCE_THRESHOLD

\* (for C24) a gate that lets through a confidence equal to the threshold
PassesGateAtThreshold(dep, intent_result) ==
    /\ intent_result # Nothing
    /\ Val(intent_result).confidence >= confidence_threshold(dep)

\* the gate of the pattern tier
PassesGate(dep, intent_result) ==
    /\ intent_result # Nothing
    /\ Val(intent_result).confidence > confidence_threshold(dep)

\* (for C1) a hit that returns the cached response as it was stored
CacheHitResponseUntagged(similar_match) == similar_match.response

\* the response of a cache hit
CacheHitResponse(similar_match) ==
    DictSet(DictSet(DictSet(similar_match.response,
        "source", "semantic_cache"),
        "similarity_score", similar_match.similarity),
        "original_cached_query", similar_match.original_query)

Execution(tier, intent, result, env) ==
    [tier |-> tier, ok |-> result.ok, succeeded |-> Succeeded(intent, result, env)]

\* the request, having made one more call
Called(t, call) == [t EXCEPT !.calls = @ \o <<call>>]

\* return response / raise Exception(message)
Reply(t, response) == [t EXCEPT !.at = "done", !.ok = TRUE] @@ [response |-> response]
Fail(t, message) == [t EXCEPT !.at = "done"] @@ [error |-> message]

\* src/backend/database.py: what the tenant has configured; a credential
\* store that cannot be reached is printed, and {} returned
get_all_user_db_schemas(configured, store_up) ==
    IF store_up THEN configured ELSE <<>>

\* what Step 1 may meet: the databases the tenant has configured, and
\* whether the credential store answers
SchemaFetches ==
    {[configured |-> s, store_up |-> TRUE] : s \in Schemas}
        \cup {[configured |-> SchemaSales, store_up |-> FALSE]}

\* "Step 1: Get user's database schemas"
Arrive(c) ==
    {[at |-> "schemas",
      in |-> [DefaultIn EXCEPT
                !.schema = get_all_user_db_schemas(f.configured, f.store_up),
                !.store_up = f.store_up],
      redis |-> c.redis, memo |-> c.memo, ok |-> FALSE,
      calls |-> <<"get_all_user_db_schemas">>, embedding |-> Nothing,
      lookup |-> Nothing, intent |-> Nothing, executions |-> <<>>,
      llm_output |-> Nothing] :
        f \in May(c, DefaultIn, [configured |-> SchemaSales, store_up |-> TRUE],
                 SchemaFetches)}

\* (for C12) a request that goes on with an empty schema view
GetSchemasUnchecked(t) ==
    IF t.at # "schemas" THEN {t} ELSE {[t EXCEPT !.at = "embed"]}

GetSchemas(t) ==
    IF t.at # "schemas" THEN {t}
    ELSE IF t.in.schema = <<>>
    THEN {Fail(t, "No database connections found. Please add a database configuration first.")}
    ELSE {[t EXCEPT !.at = "embed"]}

\* the embedding model is asked: the method runs past its first test, and
\* (backend) the text is not memoized
Encodes(c, user_query) ==
    c.embedding_model /\ (c.deployment # "backend" \/ c.memo[user_query] = "unset")

\* "Step 2: Generate embedding for semantic similarity"
WithEmbedding(t, user_query, encode_ok, got) ==
    [Called(t, "get_query_embedding") EXCEPT
        !.in.encode_ok = encode_ok,
        !.embedding = got.embedding,
        !.memo[user_query] = got.cached,
        !.at = IF got.embedding # Nothing THEN "lookup" ELSE "pattern"]

Embedded(c, user_query, t, encode_ok) ==
    WithEmbedding(t, user_query, encode_ok,
                  get_query_embedding(c.deployment, c.embedding_model,
                                      c.memo[user_query], user_query, encode_ok))

Embed(c, user_query, t) ==
    IF t.at # "embed" THEN {t}
    ELSE {Embedded(c, user_query, t, b) :
            b \in IF Encodes(c, user_query) THEN May(c, t.in, TRUE, BOOLEAN) ELSE {TRUE}}

\* "Step 3: Check semantic cache first"
LookupNoted(t, order, fault, look) ==
    [Called(t, "find_similar_cached_query") EXCEPT
        !.in.order = order, !.in.find_fault = fault,
        !.redis = look.redis,
        !.lookup = Some([match |-> look.match, read_from |-> look.read_from])]

WithLookup(t, order, fault, look) ==
    IF look.match # Nothing
    THEN Reply(LookupNoted(t, order, fault, look), CacheHitResponse(Val(look.match)))
    ELSE [LookupNoted(t, order, fault, look) EXCEPT !.at = "pattern"]

Looked(c, user_id, t, order, fault) ==
    WithLookup(t, order, fault,
               find_similar_cached_query(c.deployment, c.client, t.redis, user_id,
                                         t.embedding, order, c.now, fault))

CanonicalOrder(S) == CHOOSE o \in Orders(S) : TRUE

\* when no order of the index yields a match, one order stands for all
Lookups(c, user_id, t, members, hits) ==
    {Looked(c, user_id, t, o, f) :
        o \in (IF hits THEN Orders(members) ELSE {CanonicalOrder(members)}),
        f \in (IF c.client
               THEN May(c, t.in, 0, IF hits THEN FindFaults ELSE FindFaults \ {3})
               ELSE {0})}

Hits(c, user_id, t) ==
    Looked(c, user_id, t, CanonicalOrder(smembers(t.redis, index_key(user_id))), 0).at = "done"

CheckCache(c, user_id, t) ==
    IF t.at # "lookup" THEN {t}
    ELSE Lookups(c, user_id, t, smembers(t.redis, index_key(user_id)), Hits(c, user_id, t))

\* "Step 4: Try intent detection with patterns"
Gated(c, t, intent_result) ==
    [Called(t, "detect_intent") EXCEPT
        !.intent = intent_result,
        !.at = IF PassesGate(c.deployment, intent_result) THEN "execute_pattern" ELSE "llm"]

PatternTier(c, user_query, t) ==
    IF t.at # "pattern" THEN {t}
    ELSE {Gated(c, t, Detected[IF c.deployment = "main" THEN "main" ELSE "service"]
                              [user_query][t.in.schema])}

\* the try block of Step 4
PatternNoted(t, env, intent_result, run) ==
    [Called(t, "execute_pattern") EXCEPT
        !.in.pattern_env = env,
        !.executions = @ \o <<Execution("pattern", intent_result, run, env)>>]

\* the exception comes from running the statement on the tenant's database
StatementFailed(run) == startswith(run.error, "Error executing SQL query")

\* the service catches every exception of the try block and goes on to the
\* LLM tier; src/main.py catches only those of the statement, and lets the
\* others (no connection to the credential store, no credentials) reach the
\* caller
\* (for C29) a pattern tier that tags its response "pattern_match"
PatternRanPatternMatch(dep, t, env, intent_result, run) ==
    IF run.ok
    THEN [PatternNoted(t, env, intent_result, run) EXCEPT !.at = "store"] @@
         [response |-> DictSet(DictSet(run.response, "source", "pattern_match"),
                               "confidence", intent_result.confidence)]
    ELSE IF dep = "main" /\ ~StatementFailed(run)
    THEN Fail(PatternNoted(t, env, intent_result, run), run.error)
    ELSE [PatternNoted(t, env, intent_result, run) EXCEPT !.at = "llm"]

PatternRan(dep, t, env, intent_result, run) ==
    IF run.ok
    THEN [PatternNoted(t, env, intent_result, run) EXCEPT !.at = "store"] @@
         [response |-> DictSet(DictSet(run.response, "source", "intent_detection"),
                               "confidence", intent_result.confidence)]
    ELSE IF dep = "main" /\ ~StatementFailed(run)
    THEN Fail(PatternNoted(t, env, intent_result, run), run.error)
    ELSE [PatternNoted(t, env, intent_result, run) EXCEPT !.at = "llm"]

PatternExecuted(c, user_id, t, env) ==
    PatternRan(c.deployment, t, env, Val(t.intent),
               Execute(user_id, Val(t.intent), t.in.schema, env, "Unknown intent action"))

ExecutePattern(c, user_id, t) ==
    IF t.at # "execute_pattern" THEN {t}
    ELSE {PatternExecuted(c, user_id, t, env) : env \in May(c, t.in, EnvUp, Envs)}

\* "Step 5: Fallback to OSS LLM"
LLMReturned(t, llm) ==
    IF ~llm.ok
    THEN Fail(t, "An error occurred during LLM processing: " \o llm.error)
    ELSE [t EXCEPT !.llm_output = Some(llm.response), !.at = "execute_llm"]

LLMAnswered(t, reply) ==
    LLMReturned([Called(t, "process_with_llm") EXCEPT !.in.llm = reply], Answered[reply])

\* src/main.py imports llmcall as the process starts, the service as the
\* request reaches the LLM tier
LLMTier(c, t) ==
    IF t.at # "llm" THEN {t}
    ELSE {LLMAnswered(t, reply) :
            reply \in {l \in LLMReplies : c.deployment = "main" => l.kind # "import_error"}}

\* the LLM's output names something to run
Runs(llm_output) ==
    Get(llm_output, "action") = "list_tables" \/ "query" \in DOMAIN llm_output

\* "Process LLM response"
LLMNoted(t, env, llm_output, run) ==
    IF Runs(llm_output)
    THEN [Called(t, "execute_llm") EXCEPT
             !.in.llm_env = env,
             !.executions = @ \o <<Execution("llm", llm_output, run, env)>>]
    ELSE t

\* the message of the hard failure
LLMFailure(dep, run) ==
    IF dep # "main" THEN "Error processing LLM response: " \o run.error
    ELSE IF StatementFailed(run) THEN "An error occurred during query execution"
    ELSE run.error

\* (for C11) a failed execution at the LLM tier is answered and cached
LLMRanCachesFailure(dep, t, env, llm_output, run) ==
    [LLMNoted(t, env, llm_output, run) EXCEPT !.at = "store"] @@
    [response |-> IF run.ok THEN DictSet(run.response, "source", "llm_fallback")
                  ELSE [error |-> run.error, source |-> "llm_fallback"]]

LLMRan(dep, t, env, llm_output, run) ==
    IF run.ok
    THEN [LLMNoted(t, env, llm_output, run) EXCEPT !.at = "store"] @@
         [response |-> DictSet(run.response, "source", "llm_fallback")]
    ELSE Fail(LLMNoted(t, env, llm_output, run), LLMFailure(dep, run))

LLMExecuted(c, user_id, t, env) ==
    LLMRan(c.deployment, t, env, Val(t.llm_output),
           Execute(user_id, Val(t.llm_output), t.in.schema, env,
                   "LLM returned an unrecognized response format"))

ExecuteLLM(c, user_id, t) ==
    IF t.at # "execute_llm" THEN {t}
    ELSE {LLMExecuted(c, user_id, t, env) :
            env \in IF Runs(Val(t.llm_output)) THEN May(c, t.in, EnvUp, Envs) ELSE {EnvUp}}

\* if query_embedding is not None: cache_manager.store_semantic_cache(...);
\* return final_response
Stored(c, user_id, user_query, t, fault) ==
    [Called(t, "store_semantic_cache") EXCEPT
        !.in.store_fault = fault, !.at = "done", !.ok = TRUE,
        !.redis = store_semantic_cache(c.deployment, c.client, t.redis, user_id,
                                       user_query, t.embedding, t.response,
                                       c.now, fault)]

\* (for C8) a store that does not ask whether there is an embedding
CacheResultUnguarded(c, user_id, user_query, t) ==
    IF t.at # "store" THEN {t}
    ELSE {Stored(c, user_id, user_query, t, fault) :
            fault \in IF c.client THEN May(c, t.in, 0, StoreFaults(c.deployment)) ELSE {0}}

CacheResult(c, user_id, user_query, t) ==
    IF t.at # "store" THEN {t}
    ELSE IF t.embedding = Nothing THEN {[t EXCEPT !.at = "done", !.ok = TRUE]}
    ELSE {Stored(c, user_id, user_query, t, fault) :
            fault \in IF c.client THEN May(c, t.in, 0, StoreFaults(c.deployment)) ELSE {0}}

\* the requests as they leave each step
AfterSchemas(c) == UNION {GetSchemas(t) : t \in Arrive(c)}
AfterEmbed(c, user_query) == UNION {Embed(c, user_query, t) : t \in AfterSchemas(c)}
AfterCache(c, user_id, user_query) ==
    UNION {CheckCache(c, user_id, t) : t \in AfterEmbed(c, user_query)}
AfterPatterns(c, user_id, user_query) ==
    UNION {PatternTier(c, user_query, t) : t \in AfterCache(c, user_id, user_query)}
AfterPatternRun(c, user_id, user_query) ==
    UNION {ExecutePattern(c, user_id, t) : t \in AfterPatterns(c, user_id, user_query)}
AfterLLM(c, user_id, user_query) ==
    UNION {LLMTier(c, t) : t \in AfterPatternRun(c, user_id, user_query)}
AfterLLMRun(c, user_id, user_query) ==
    UNION {ExecuteLLM(c, user_id, t) : t \in AfterLLM(c, user_id, user_query)}

\* every way the request can go: the finished requests
process_query(c, user_id, user_query) ==
    UNION {CacheResult(c, user_id, user_query, t) : t \in AfterLLMRun(c, user_id, user_query)}

Context ==
    [deployment |-> deployment, client |-> client, embedding_model |-> embedding_model,
     redis |-> redis, memo |-> memo, now |-> now, faults |-> workload = "faults"]

(***************************************************************************)
(* The state after construction: the cache manager has connected to Redis  *)
(* or not, has loaded the embedding model or not, and Redis holds nothing. *)
(* Two workloads are explored: "tenants", two tenants whose requests meet   *)
(* no fault, while time passes; and "faults", one tenant whose requests    *)
(* meet faults, within one step of the clock.                              *)
(***************************************************************************)
Workloads == {"faults", "tenants"}

Idle == [op |-> "idle"]

\* the server's workers, and a worker that is in no call
Workers == {"w1", "w2"}
Free == [op |-> "none"]

Init ==
    /\ deployment \in Deployments
    /\ workload \in Workloads
    /\ client \in BOOLEAN
    /\ embedding_model \in BOOLEAN
    /\ redis = EmptyRedis
    /\ now = 0
    /\ memo = [q \in Queries |-> "unset"]
    /\ last = Idle
    /\ calls = [w \in Workers |-> Free]
    /\ cleared = FALSE

\* the tenants that send requests
Active == IF workload = "tenants" THEN Tenants ELSE {"u1"}

\* the step of the workload's clock, and the hit counts it goes up to
ClockStep == IF workload = "expiry" THEN ExpiryTickSeconds ELSE TickSeconds
HitLimit == IF workload = "expiry" THEN MaxExpiryHits ELSE MaxHits

\* time passes; Redis drops the keys whose time to live has run out
Tick ==
    /\ last = Idle
    /\ workload \in {"tenants", "expiry"}
    /\ now < MaxTicks * ClockStep
    /\ now' = now + ClockStep
    /\ redis' = Purge(redis, now')
    /\ UNCHANGED <<deployment, workload, client, embedding_model, memo, last, conc>>

\* GET /cache-stats
GetCacheStats ==
    /\ last = Idle
    /\ \E user_id \in Active, fault \in May(Context, DefaultIn, 0, StatsFaults) :
       \E order \in Orders(smembers(redis, index_key(user_id))) :
        /\ last' = [op |-> "get_cache_stats", user_id |-> user_id, fault |-> fault,
                    order |-> order, before |-> redis,
                    reply |-> get_cache_stats(deployment, client, redis, user_id, order, fault)]
        /\ UNCHANGED <<deployment, workload, client, embedding_model, redis, now, memo, conc>>

\* DELETE /clear-cache
ClearUserCache ==
    /\ last = Idle
    /\ \E user_id \in Active, fault \in May(Context, DefaultIn, 0, ClearFaults(deployment)) :
        LET done == clear_user_cache(deployment, client, redis, user_id, fault)
        IN  /\ redis' = done.redis
            /\ last' = [op |-> "clear_user_cache", user_id |-> user_id, fault |-> fault,
                        before |-> redis, reply |-> done.reply]
            /\ UNCHANGED <<deployment, workload, client, embedding_model, now, memo, conc>>

HitsBounded(r) ==
    \A k \in CacheKeys : r.kv[k] # Nothing => Val(r.kv[k]).val.hit_count <= HitLimit

RecordsBounded(r) ==
    Cardinality({k \in CacheKeys : r.kv[k] # Nothing}) <= MaxRecords

\* what is kept of a finished request
Outcome(out) == [f \in DOMAIN out \ {"redis", "memo", "at", "in"} |-> out[f]]

\* POST /ask: one request, from the schema fetch to the reply
ProcessQuery ==
    /\ last = Idle
    /\ \E user_id \in Active, user_query \in Queries :
       \E out \in process_query(Context, user_id, user_query) :
            /\ HitsBounded(out.redis)
            /\ RecordsBounded(out.redis)
            /\ redis' = out.redis
            /\ memo' = out.memo
            /\ last' = [op |-> "process_query", user_id |-> user_id,
                        user_query |-> user_query, in |-> out.in, before |-> redis,
                        memo_before |-> memo, out |-> Outcome(out)]
            /\ UNCHANGED <<deployment, workload, client, embedding_model, now, conc>>

\* the reply has gone out; the server takes the next request
Deliver ==
    /\ last # Idle
    /\ last' = Idle
    /\ UNCHANGED <<deployment, workload, client, embedding_model, redis, now, memo, conc>>

Next == Tick \/ GetCacheStats \/ ClearUserCache \/ ProcessQuery \/ Deliver

Spec == Init /\ [][Next]_vars

(***************************************************************************)
(* A third workload, "expiry": one tenant whose requests meet no fault,    *)
(* with Redis connected and the embedding model loaded, while the clock    *)
(* goes in steps of two thirds of the time to live.                        *)
(***************************************************************************)
ExpiryInit ==
    /\ deployment \in Deployments
    /\ workload = "expiry"
    /\ client = TRUE
    /\ embedding_model = TRUE
    /\ redis = EmptyRedis
    /\ now = 0
    /\ memo = [q \in Queries |-> "unset"]
    /\ last = Idle
    /\ calls = [w \in Workers |-> Free]
    /\ cleared = FALSE

ExpirySpec == ExpiryInit /\ [][Next]_vars

(***************************************************************************)
(* Concurrent requests.  The handlers are async functions that never       *)
(* await, so one server process runs them one after the other; the server  *)
(* runs several worker processes against the one Redis, and their calls    *)
(* interleave between Redis commands.  Redis runs one command at a time,   *)
(* and a pipeline of the backend revision (MULTI ... EXEC) as one command. *)
(* A worker is in one call: process_query from its cache lookup on (the    *)
(* lookup, then what the tiers resolve the text to, then the cache write), *)
(* clear_user_cache or get_cache_stats; pc is the Redis command the call   *)
(* sends next.  The workers serve one tenant, whose texts are similar to   *)
(* each other, and no command fails.                                       *)
(***************************************************************************)
MaxConcHits == 2      \* a write-back that would push hit_count past it is not sent
MaxRowsets == 2       \* the results a statement may give, from one run to the next

ConcTenant == "u1"
ConcQueries == {QShowAll, QFindWhere}

\* the response of a tier that resolved and ran the text
Resolved(n) == [sql_query |-> SelectAll, data |-> <<[id |-> n]>>, source |-> "llm_fallback"]
\* what the tiers make of a text: nothing (the request fails), or a response
Resolutions == {Nothing} \cup {Some(Resolved(n)) : n \in 1..MaxRowsets}

\* the keyspace and the call, after a command
Step(r, call) == [redis |-> r, call |-> call]

\* process_query as it enters find_similar_cached_query
Asking(query) ==
    [op |-> "process_query", query |-> query, pc |-> "smembers", order |-> <<>>, i |-> 0,
     best_match |-> Nothing, pending |-> Nothing, match |-> Nothing, stored |-> Nothing]

\* find_similar_cached_query returns None: the tiers resolve the text
Missed(call) == [Asking(call.query) EXCEPT !.pc = "resolve"]

\* process_query returns: the match of a cache hit, or the response it stored
Replied(call, match, stored) ==
    [Asking(call.query) EXCEPT !.pc = "done", !.match = match, !.stored = stored]

\* cached_keys = smembers(index_key); if not cached_keys: return None
find_listed(dep, call, order) ==
    IF Len(order) = 0 THEN Missed(call)
    ELSE [call EXCEPT !.pc = IF dep = "backend" THEN "mget" ELSE "get",
                      !.order = order, !.i = 1]

\* src/cache.py: one turn of the loop over cached_keys has read its record
RootVisited(call, best_match) ==
    IF call.i < Len(call.order) THEN [call EXCEPT !.i = @ + 1, !.best_match = best_match]
    ELSE IF best_match = Nothing THEN Missed(call)
    ELSE [Asking(call.query) EXCEPT !.pc = "reget", !.best_match = best_match]

root_get(dep, r, call) ==
    RootVisited(call, Visit(call.order[call.i], get(r, call.order[call.i]),
                            Encoded[call.query], call.best_match,
                            similarity_threshold(dep)))

\* src/cache.py, "Update hit count": the record is read again; parse_raw of
\* a record that is gone raises, and the except clause passes
RootReread(call, key, cached_data) ==
    IF cached_data = Nothing THEN Replied(call, call.best_match, Nothing)
    ELSE [call EXCEPT !.pc = "write",
                      !.pending = Some([key |-> key, entry |-> Val(cached_data)])]

root_reget(r, call) ==
    RootReread(call, Val(call.best_match).cache_key, get(r, Val(call.best_match).cache_key))

\* src/backend/cache.py: the best entry of those read, if it passes the
\* threshold, with the key its hit count is written back under
BackendPicked(call, order, positions, entries, similarities, best_idx) ==
    IF similarities[best_idx] > SEMANTIC_SIMILARITY_THRESHOLD
    THEN [Asking(call.query) EXCEPT
            !.pc = "write",
            !.best_match = Some([response |-> entries[best_idx].response,
                                 similarity |-> similarities[best_idx],
                                 original_query |-> entries[best_idx].query]),
            !.pending = Some([key |-> WriteBackKey(order, positions, best_idx),
                              entry |-> entries[best_idx]])]
    ELSE Missed(call)

BackendCompared(call, positions, entries, similarities) ==
    BackendPicked(call, call.order, positions, entries, similarities, argmax(similarities))

BackendParsed(call, positions, entries) ==
    IF Len(entries) = 0 THEN Missed(call)
    ELSE BackendCompared(call, positions, entries,
            [n \in 1..Len(entries) |->
                cosine_similarity(Encoded[call.query], entries[n].embedding)])

BackendGot(r, call, positions) ==
    BackendParsed(call, positions,
                  [n \in 1..Len(positions) |-> Val(get(r, call.order[positions[n]]))])

\* src/backend/cache.py: the pipeline of gets, and the choice of the best
backend_mget(r, call) == BackendGot(r, call, LivePositions(r, call.order, 1))

\* the entry read, with one more hit, is written under the key
find_write(r, call, t) ==
    Step(setex(r, Val(call.pending).key, CACHE_EXPIRATION_SECONDS,
               [Val(call.pending).entry EXCEPT !.hit_count = @ + 1], t),
         Replied(call, call.best_match, Nothing))

\* the next Redis command of find_similar_cached_query
find_command(dep, r, call, t) ==
    CASE call.pc = "get"   -> Step(r, root_get(dep, r, call))
      [] call.pc = "reget" -> Step(r, root_reget(r, call))
      [] call.pc = "mget"  -> Step(r, backend_mget(r, call))
      [] OTHER             -> find_write(r, call, t)

\* store_semantic_cache begins: the entry is built, and the first command
\* sent (setex; for the backend the pipeline of setex, sadd and expire)
store_begun(dep, r, call, response, t) ==
    IF dep = "backend"
    THEN Step(store_semantic_cache(dep, TRUE, r, ConcTenant, call.query,
                                   Encoded[call.query], response, t, 0),
              Replied(call, Nothing, Some(response)))
    ELSE Step(setex(r, cache_key(ConcTenant, call.query), CACHE_EXPIRATION_SECONDS,
                    SemanticCacheEntry(call.query, Encoded[call.query], response, t,
                                       ConcTenant), t),
              [call EXCEPT !.pc = "sadd", !.stored = Some(response)])

\* (for C19) a store that leaves the key out of the tenant's index
StoreUnindexed(dep, r, call, resolution, t) ==
    CASE call.pc = "resolve" ->
            IF resolution = Nothing THEN Step(r, Replied(call, Nothing, Nothing))
            ELSE Step(setex(r, cache_key(ConcTenant, call.query), CACHE_EXPIRATION_SECONDS,
                            SemanticCacheEntry(call.query, Encoded[call.query],
                                               Val(resolution), t, ConcTenant), t),
                      [call EXCEPT !.pc = "sadd", !.stored = resolution])
      [] call.pc = "sadd" -> Step(r, [call EXCEPT !.pc = "expire"])
      [] OTHER -> Step(r, Replied(call, Nothing, call.stored))

\* the next step of process_query after a miss: the tiers' resolution (a
\* request that fails stores nothing), then the commands of the store
store_command(dep, r, call, resolution, t) ==
    CASE call.pc = "resolve" ->
            IF resolution = Nothing THEN Step(r, Replied(call, Nothing, Nothing))
            ELSE store_begun(dep, r, call, Val(resolution), t)
      [] call.pc = "sadd" ->
            Step(sadd(r, index_key(ConcTenant), cache_key(ConcTenant, call.query)),
                 [call EXCEPT !.pc = "expire"])
      [] OTHER ->
            Step(expire(r, index_key(ConcTenant), CACHE_EXPIRATION_SECONDS, t),
                 Replied(call, Nothing, call.stored))

\* clear_user_cache as it is entered
Clearing == [op |-> "clear_user_cache", pc |-> "smembers", cached_keys |-> {}, reply |-> Nothing]

clear_listed(dep, call, cached_keys) ==
    [call EXCEPT !.cached_keys = cached_keys,
                 !.pc = IF dep = "backend" THEN "execute"
                        ELSE IF cached_keys # {} THEN "delete_records"
                        ELSE "delete_index"]

Cleared(call) ==
    [call EXCEPT !.pc = "done",
                 !.reply = Some([cleared_count |-> Cardinality(call.cached_keys)])]

\* (for C20) a clearing that deletes the records and leaves the index
ClearKeepsIndex(dep, r, call) ==
    CASE call.pc = "delete_records" ->
            Step(delete(r, call.cached_keys), [call EXCEPT !.pc = "delete_index"])
      [] call.pc = "delete_index" -> Step(r, Cleared(call))
      [] OTHER -> Step(delete(r, call.cached_keys), Cleared(call))

\* the next Redis command of clear_user_cache
clear_command(dep, r, call) ==
    CASE call.pc = "delete_records" ->
            Step(delete(r, call.cached_keys), [call EXCEPT !.pc = "delete_index"])
      [] call.pc = "delete_index" ->
            Step(delete(r, {index_key(ConcTenant)}), Cleared(call))
      [] OTHER ->
            Step(delete(delete(r, call.cached_keys), {index_key(ConcTenant)}), Cleared(call))

\* get_cache_stats as it is entered
Counting ==
    [op |-> "get_cache_stats", pc |-> "smembers", order |-> <<>>, i |-> 0,
     cache_entries |-> <<>>, after_clear |-> FALSE, reply |-> Nothing]

Counted(call, cache_entries) ==
    [call EXCEPT !.pc = "done", !.i = 0, !.cache_entries = <<>>,
                 !.reply = Some([total_cached_queries |-> Len(call.order),
                                 cache_entries |-> SortByHitCount(cache_entries)])]

stats_listed(dep, call, order, after_clear) ==
    IF Len(order) = 0 THEN Counted([call EXCEPT !.after_clear = after_clear], <<>>)
    ELSE [call EXCEPT !.pc = IF dep = "backend" THEN "mget" ELSE "get",
                      !.order = order, !.i = 1, !.after_clear = after_clear]

\* src/cache.py: one turn of the loop of get_cache_stats
StatsRead(call, cache_entries) ==
    IF call.i < Len(call.order)
    THEN [call EXCEPT !.i = @ + 1, !.cache_entries = cache_entries]
    ELSE Counted(call, cache_entries)

\* the next Redis command of get_cache_stats
stats_command(dep, r, call) ==
    IF call.pc = "mget"
    THEN Counted(call, StatsEntries(r, call.order, LivePositions(r, call.order, 1)))
    ELSE StatsRead(call, call.cache_entries \o
                         (IF get(r, call.order[call.i]) = Nothing THEN <<>>
                          ELSE <<StatsEntry(Val(get(r, call.order[call.i])))>>))

\* the cache functions of src/main.py are those of src/cache.py, and the
\* tenant's texts pass the threshold of either
ConcInit ==
    /\ deployment \in {"root", "backend"}
    /\ workload = "workers"
    /\ client = TRUE
    /\ embedding_model = TRUE
    /\ redis = EmptyRedis
    /\ now = 0
    /\ memo = [q \in Queries |-> "unset"]
    /\ last = Idle
    /\ calls = [w \in Workers |-> Free]
    /\ cleared = FALSE

\* the worker is in the call, which has a command to send
InCall(w, op, pcs) == calls[w].op = op /\ calls[w].pc \in pcs

\* a store has sent its first command and not its last
StoreInFlight == \E w \in Workers : InCall(w, "process_query", {"sadd", "expire"})

\* POST /ask reaches the cache lookup, which lists the tenant's index
BeginAsk(w) ==
    /\ calls[w] = Free
    /\ \E query \in ConcQueries :
       \E order \in Orders(smembers(redis, index_key(ConcTenant))) :
            calls' = [calls EXCEPT ![w] = find_listed(deployment, Asking(query), order)]
    /\ UNCHANGED <<deployment, workload, client, embedding_model, redis, now, memo, last,
                   cleared>>

\* the lookup sends its next command
FindStep(w) ==
    /\ InCall(w, "process_query", {"get", "reget", "mget", "write"})
    /\ calls[w].pc = "write" => Val(calls[w].pending).entry.hit_count < MaxConcHits
    /\ redis' = find_command(deployment, redis, calls[w], now).redis
    /\ calls' = [calls EXCEPT ![w] = find_command(deployment, redis, calls[w], now).call]
    /\ UNCHANGED <<deployment, workload, client, embedding_model, now, memo, last, cleared>>

\* the tiers have answered, and the store sends its next command
StoreStep(w) ==
    /\ InCall(w, "process_query", {"resolve", "sadd", "expire"})
    /\ \E resolution \in (IF calls[w].pc = "resolve" THEN Resolutions ELSE {calls[w].stored}) :
        /\ redis' = store_command(deployment, redis, calls[w], resolution, now).redis
        /\ calls' = [calls EXCEPT ![w] =
                        store_command(deployment, redis, calls[w], resolution, now).call]
        /\ cleared' = (cleared /\ (calls[w].pc # "resolve" \/ resolution = Nothing))
    /\ UNCHANGED <<deployment, workload, client, embedding_model, now, memo, last>>

\* DELETE /clear-cache lists the tenant's index
BeginClear(w) ==
    /\ calls[w] = Free
    /\ calls' = [calls EXCEPT ![w] =
                    clear_listed(deployment, Clearing, smembers(redis, index_key(ConcTenant)))]
    /\ UNCHANGED <<deployment, workload, client, embedding_model, redis, now, memo, last,
                   cleared>>

\* the clearing sends its next command; as it returns, the cache counts as
\* cleared unless a store is under way
ClearStep(w) ==
    /\ InCall(w, "clear_user_cache", {"delete_records", "delete_index", "execute"})
    /\ redis' = clear_command(deployment, redis, calls[w]).redis
    /\ calls' = [calls EXCEPT ![w] = clear_command(deployment, redis, calls[w]).call]
    /\ cleared' = IF clear_command(deployment, redis, calls[w]).call.pc = "done"
                  THEN ~StoreInFlight ELSE cleared
    /\ UNCHANGED <<deployment, workload, client, embedding_model, now, memo, last>>

\* GET /cache-stats lists the tenant's index
BeginStats(w) ==
    /\ calls[w] = Free
    /\ \E order \in Orders(smembers(redis, index_key(ConcTenant))) :
            calls' = [calls EXCEPT ![w] = stats_listed(deployment, Counting, order, cleared)]
    /\ UNCHANGED <<deployment, workload, client, embedding_model, redis, now, memo, last,
                   cleared>>

\* the statistics read on
StatsStep(w) ==
    /\ InCall(w, "get_cache_stats", {"get", "mget"})
    /\ calls' = [calls EXCEPT ![w] = stats_command(deployment, redis, calls[w])]
    /\ UNCHANGED <<deployment, workload, client, embedding_model, redis, now, memo, last,
                   cleared>>

\* the call returns, and the worker takes the next request
Return(w) ==
    /\ calls[w] # Free
    /\ calls[w].pc = "done"
    /\ calls' = [calls EXCEPT ![w] = Free]
    /\ UNCHANGED <<deployment, workload, client, embedding_model, redis, now, memo, last,
                   cleared>>

ConcNext ==
    \E w \in Workers :
        \/ BeginAsk(w) \/ FindStep(w) \/ StoreStep(w)
        \/ BeginClear(w) \/ ClearStep(w)
        \/ BeginStats(w) \/ StatsStep(w)
        \/ Return(w)

ConcSpec == ConcInit /\ [][ConcNext]_vars

(***************************************************************************)
(* The pattern tier on its own: detect_intent and the gate of Step 4, for  *)
(* texts and schema views chosen to make patterns overlap and table names  *)
(* contain one another.                                                    *)
(***************************************************************************)
MatchTables == {"employees", "users", "emp"}

ShowAllFrom(table) == "show all records from " \o table

MatchQueries ==
    {ShowAllFrom(table) : table \in MatchTables} \cup
    {"list tables", "list all tables", "list tables in sales", "List tables of HR and sales",
     "show data from x then list tables", "list employees", QFindWhere,
     "top 5 rows from users", "count rows in orders", "hello"}

\* the schema views; process_query calls detect_intent with none that is empty
MatchSchemas ==
    {SchemaSales,
     <<Database("sales", <<"emp", "employees">>)>>,
     <<Database("sales", <<"employees", "emp">>)>>,
     <<Database("HR", <<"users">>), Database("sales", <<"employees">>)>>,
     <<Database("sales", <<"employees">>), Database("HR", <<"users">>)>>,
     <<Database("shop", <<"tables", "orders">>)>>,
     <<Database("crm", <<"users", "table">>)>>}

\* the patterns a revision declares, and its detect_intent
Patterns(dep) == IF dep = "main" THEN MAIN_INTENT_PATTERNS ELSE INTENT_PATTERNS

Detect(dep, query, all_schemas) ==
    IF dep = "main" THEN detect_intent_with_patterns(query, all_schemas)
    ELSE detect_intent(query, all_schemas)

\* detect_intent for each text and schema view of this workload
Detections ==
    [dep \in {"main", "backend"} |->
        [q \in MatchQueries |-> [s \in MatchSchemas |-> Detect(dep, q, s)]]]

MatchInit ==
    /\ deployment \in {"main", "backend"}
    /\ workload = "patterns"
    /\ client = TRUE
    /\ embedding_model = TRUE
    /\ redis = EmptyRedis
    /\ now = 0
    /\ memo = [q \in Queries |-> "unset"]
    /\ last = Idle
    /\ calls = [w \in Workers |-> Free]
    /\ cleared = FALSE

\* Step 4 of process_query up to the gate: the intent detected, and the
\* tier the request goes to
DetectIntent ==
    /\ last = Idle
    /\ workload = "patterns"
    /\ \E query \in MatchQueries, all_schemas \in MatchSchemas :
        last' = [op |-> "detect_intent", query |-> query, all_schemas |-> all_schemas,
                 intent_result |-> Detections[deployment][query][all_schemas],
                 at |-> IF PassesGate(deployment, Detections[deployment][query][all_schemas])
                        THEN "execute_pattern" ELSE "llm"]
    /\ UNCHANGED <<deployment, workload, client, embedding_model, redis, now, memo, conc>>

MatchNext == DetectIntent \/ Deliver

MatchSpec == MatchInit /\ [][MatchNext]_vars

(***************************************************************************)
(* The claims.  They are read off the reply of the operation that has just *)
(* run: `last` holds the operation, what it met (in), the keyspace it      *)
(* found (before) and what it did (out, reply); redis is the keyspace it   *)
(* left.                                                                   *)
(***************************************************************************)
Request == last.op = "process_query"

\* the request has asked the cache / the cache has returned a match
LookedUp == Request /\ last.out.lookup # Nothing
CacheHit == LookedUp /\ Val(last.out.lookup).match # Nothing

\* the match returned, and the record it was read from
Matched == Val(Val(last.out.lookup).match)
ReadFrom == Val(Val(last.out.lookup).read_from)
MatchedRecord == Val(get(last.before, ReadFrom))

\* the tenant's records that the lookup could read: indexed and present
Readable(r, user_id) == {k \in smembers(r, index_key(user_id)) : get(r, k) # Nothing}

SimilarityTo(r, k) == cosine_similarity(last.out.embedding, Val(get(r, k)).embedding)

HitFields == {"source", "similarity_score", "original_cached_query"}

\* C1: when an embedding is available and the cache lookup returns a match,
\* process_query returns the cached response of the matched record with
\* source "semantic_cache", the similarity_score and the original_cached_query
\* of the match, and runs neither the pattern tier nor the LLM tier.
C1_CacheHitShortCircuits ==
    CacheHit =>
        /\ last.out.embedding # Nothing
        /\ last.out.ok
        /\ DOMAIN last.out.response = DOMAIN MatchedRecord.response \cup HitFields
        /\ \A f \in DOMAIN MatchedRecord.response \ HitFields :
                last.out.response[f] = MatchedRecord.response[f]
        /\ last.out.response.source = "semantic_cache"
        /\ last.out.response.similarity_score = Matched.similarity
        /\ last.out.response.original_cached_query = MatchedRecord.query
        /\ last.out.calls = <<"get_all_user_db_schemas", "get_query_embedding",
                              "find_similar_cached_query">>
        /\ last.out.intent = Nothing
        /\ last.out.llm_output = Nothing
        /\ last.out.executions = <<>>

\* a hit on a record stored for another text
C1_Witness ==
    /\ CacheHit
    /\ last.out.ok
    /\ last.out.response.source = "semantic_cache"
    /\ last.out.response.original_cached_query # last.user_query

\* C2 (as stated): while the record stored under (tenant, text) is live, and
\* the cache store and the embedding provider are available, a request by
\* the same tenant with the identical text is answered from the semantic
\* cache and never reaches the LLM tier.  Checked on the requests that meet
\* no fault.
C2_IdenticalQueryHits ==
    (/\ Request
     /\ workload = "tenants"
     /\ client
     /\ last.out.embedding # Nothing
     /\ get(last.before, cache_key(last.user_id, last.user_query)) # Nothing
     /\ Val(get(last.before, cache_key(last.user_id, last.user_query))).query
            = last.user_query)
    => /\ last.out.ok
       /\ last.out.response.source = "semantic_cache"
       /\ \A i \in 1..Len(last.out.calls) : last.out.calls[i] # "process_with_llm"

\* C3: the lookup returns a record only if its cosine similarity to the
\* query's embedding is strictly greater than the similarity threshold;
\* the similarity it reports is that of the record it returns.
C3_StrictThreshold ==
    CacheHit =>
        /\ Matched.similarity = SimilarityTo(last.before, ReadFrom)
        /\ Matched.similarity > similarity_threshold(deployment)

\* the only record the lookup could read is exactly at the threshold, and
\* nothing is returned
C3_Witness ==
    /\ LookedUp
    /\ client
    /\ last.in.find_fault = 0
    /\ Readable(last.before, last.user_id) # {}
    /\ \A k \in Readable(last.before, last.user_id) :
            SimilarityTo(last.before, k) = similarity_threshold(deployment)
    /\ ~CacheHit

\* the lookup read the records: the client is there and no read raised
ReadsDone == LookedUp /\ client /\ last.in.find_fault \notin {1, 2}

\* C4: when at least one live record of the tenant's index exceeds the
\* threshold, the lookup returns one, and the one it returns has the greatest
\* similarity of all the live records of the index, in whatever order the
\* index is enumerated.
C4_BestMatch ==
    /\ CacheHit =>
            /\ ReadFrom \in Readable(last.before, last.user_id)
            /\ \A k \in Readable(last.before, last.user_id) :
                    SimilarityTo(last.before, k) <= Matched.similarity
    /\ ReadsDone =>
            ((\E k \in Readable(last.before, last.user_id) :
                    SimilarityTo(last.before, k) > similarity_threshold(deployment))
             => CacheHit)

\* two records above the threshold, the lesser one enumerated first
C4_Witness ==
    /\ CacheHit
    /\ Len(last.in.order) = 2
    /\ \A i \in 1..2 : last.in.order[i] \in Readable(last.before, last.user_id)
    /\ SimilarityTo(last.before, last.in.order[1]) > similarity_threshold(deployment)
    /\ SimilarityTo(last.before, last.in.order[1]) < SimilarityTo(last.before, last.in.order[2])
    /\ ReadFrom = last.in.order[2]

\* the tenant a key belongs to
TenantOf(key) == key[2]

OthersUntouched(user_id) ==
    /\ \A k \in CacheKeys : TenantOf(k) # user_id => redis.kv[k] = last.before.kv[k]
    /\ \A k \in IndexKeys : TenantOf(k) # user_id => redis.idx[k] = last.before.idx[k]

\* C5: cache records and indexes are scoped to the tenant: every record lies
\* under a key of the tenant it was stored for, and in that tenant's index
\* only; a lookup returns only a record of the requesting tenant; the
\* statistics list only the requesting tenant's records; clearing, like a
\* request, leaves the other tenants' records and indexes as they were.
C5_TenantIsolation ==
    /\ \A k \in CacheKeys : redis.kv[k] # Nothing => Val(get(redis, k)).user_id = TenantOf(k)
    /\ \A i \in IndexKeys : \A k \in smembers(redis, i) : TenantOf(k) = TenantOf(i)
    /\ CacheHit => TenantOf(ReadFrom) = last.user_id /\ MatchedRecord.user_id = last.user_id
    /\ last.op = "get_cache_stats" /\ "cache_entries" \in DOMAIN last.reply =>
            \A n \in 1..Len(last.reply.cache_entries) :
                \E k \in CacheKeys :
                    /\ TenantOf(k) = last.user_id
                    /\ get(last.before, k) # Nothing
                    /\ last.reply.cache_entries[n] = StatsEntry(Val(get(last.before, k)))
    /\ last.op \in {"process_query", "clear_user_cache"} => OthersUntouched(last.user_id)

\* a tenant asks what another tenant has cached, and gets no match
C5_Witness ==
    /\ LookedUp
    /\ ~CacheHit
    /\ client
    /\ \E k \in CacheKeys :
            /\ TenantOf(k) # last.user_id
            /\ k \in Readable(last.before, TenantOf(k))
            /\ Val(get(last.before, k)).query = last.user_query

\* the request has made the call
Calls(call) == \E i \in 1..Len(last.out.calls) : last.out.calls[i] = call

\* the request's last execution
LastExecution == last.out.executions[Len(last.out.executions)]

\* C6 (as stated): store_semantic_cache is called in a request only after the
\* request's resolved intent was successfully executed: a request whose SQL
\* execution or list-tables retrieval failed writes no cache record.
C6_StoreOnlyAfterSuccess ==
    (Request /\ Calls("store_semantic_cache") /\ redis # last.before) =>
        /\ last.out.executions # <<>>
        /\ LastExecution.succeeded

\* C7 (as stated): when the pattern tier's intent passes the gate and its
\* execution fails (SQL error, missing credentials, failing list-tables
\* request), process_query does not return that error, writes nothing to the
\* cache from the pattern tier, and goes on to the LLM tier.
C7_PatternFailureFallsThrough ==
    (/\ Request
     /\ last.out.executions # <<>>
     /\ last.out.executions[1].tier = "pattern"
     /\ ~last.out.executions[1].succeeded)
    => /\ Calls("process_with_llm")
       /\ last.out.ok => last.out.response.source = "llm_fallback"

\* C8: when get_query_embedding returns no embedding, process_query makes no
\* cache lookup and no cache write, leaves Redis as it was, and goes through
\* the pattern tier; it fails only if the LLM tier fails or the pattern
\* tier's error reaches the caller.
C8_NoEmbeddingSkipsCache ==
    (Request /\ Calls("get_query_embedding") /\ last.out.embedding = Nothing) =>
        /\ ~Calls("find_similar_cached_query")
        /\ ~Calls("store_semantic_cache")
        /\ last.out.lookup = Nothing
        /\ redis = last.before
        /\ Calls("detect_intent")
        /\ last.out.ok => last.out.response.source \in {"intent_detection", "llm_fallback"}
        /\ ~last.out.ok => Calls("process_with_llm") \/ Calls("execute_pattern")

\* the embedding model is loaded, its encode call raises, and the request
\* is answered by the pattern tier
C8_Witness ==
    /\ Request
    /\ embedding_model
    /\ ~last.in.encode_ok
    /\ last.out.embedding = Nothing
    /\ last.out.ok
    /\ last.out.response.source = "intent_detection"

\* what the caller gets
Answer(out) == IF out.ok THEN <<"ok", out.response>> ELSE <<"error", out.error>>

\* the same process with the cache connected and empty
ColdContext ==
    [deployment |-> deployment, client |-> TRUE, embedding_model |-> embedding_model,
     redis |-> EmptyRedis, memo |-> last.memo_before, now |-> now, faults |-> TRUE]

\* the tiers below the cache meet the same things
SameInputs(in) ==
    /\ in.find_fault = 0
    /\ in.store_fault = 0
    /\ \A f \in {"schema", "encode_ok", "pattern_env", "llm", "llm_env"} : in[f] = last.in[f]

\* process_query answers as it does on a cold cache
AsOnColdCache ==
    \E cold \in process_query(ColdContext, last.user_id, last.user_query) :
        SameInputs(cold.in) /\ Answer(cold) = Answer(last.out)

WellFormed(llm) ==
    /\ llm.kind = "content"
    /\ llm.raw # Nothing
    /\ \/ Get(Val(llm.raw), "action") = "list_tables" /\ "db" \in DOMAIN Val(llm.raw)
       \/ {"db", "table", "query"} \subseteq DOMAIN Val(llm.raw)

\* C10: an LLM result that is neither a list-tables action with a db key nor
\* a query with db, table and query keys (an empty response and a failed
\* call included) is never executed and never cached: the request ends in a
\* hard failure, and Redis is as the lookup left it.
C10_InvalidLLMResultFails ==
    (Request /\ Calls("process_with_llm") /\ ~WellFormed(last.in.llm)) =>
        /\ ~last.out.ok
        /\ ~Calls("execute_llm")
        /\ ~Calls("store_semantic_cache")
        /\ \A i \in 1..Len(last.out.executions) : last.out.executions[i].tier # "llm"
        /\ last.out.calls[Len(last.out.calls)] = "process_with_llm"
        /\ redis = last.before

\* the LLM answers with a query that names no table
C10_Witness ==
    /\ Request
    /\ Calls("process_with_llm")
    /\ last.in.llm.kind = "content"
    /\ last.in.llm.raw # Nothing
    /\ "query" \in DOMAIN Val(last.in.llm.raw)
    /\ "table" \notin DOMAIN Val(last.in.llm.raw)
    /\ ~last.out.ok

\* the calls of process_query, in the order of its steps
Ladder ==
    <<"get_all_user_db_schemas", "get_query_embedding", "find_similar_cached_query",
      "detect_intent", "execute_pattern", "process_with_llm", "execute_llm",
      "store_semantic_cache">>

Rung(call) == CHOOSE i \in 1..Len(Ladder) : Ladder[i] = call

\* the executions of the request at one tier
ExecutionsAt(tier) ==
    {i \in 1..Len(last.out.executions) : last.out.executions[i].tier = tier}

\* the LLM tier ran what the LLM resolved, and the run raised
LLMExecutionFailed ==
    Request /\ \E i \in ExecutionsAt("llm") : ~last.out.executions[i].ok

C12_EmptySchemaFailsFast ==
    (Request /\ last.in.schema = <<>>) =>
        /\ ~last.out.ok
        /\ startswith(last.out.error, "No database connections found.")
        /\ last.out.calls = <<"get_all_user_db_schemas">>
        /\ last.out.embedding = Nothing
        /\ last.out.lookup = Nothing
        /\ last.out.intent = Nothing
        /\ last.out.llm_output = Nothing
        /\ last.out.executions = <<>>
        /\ redis = last.before
        /\ memo = last.memo_before

\* the schema view is empty while the cache holds an answer to the very text
C12_Witness ==
    /\ Request
    /\ last.in.schema = <<>>
    /\ client
    /\ embedding_model
    /\ cache_key(last.user_id, last.user_query) \in Readable(last.before, last.user_id)
    /\ ~last.out.ok

(***************************************************************************)
(* The claims about concurrent calls, read off the steps of ConcSpec.      *)
(***************************************************************************)
\* the record under a key, and what of it is not the hit count
Record(r, k) == Val(get(r, k))
Content(e) == [f \in DOMAIN e \ {"hit_count"} |-> e[f]]

\* the worker's call sends the command pc in this step
Sends(w, op, pcs) == InCall(w, op, pcs) /\ calls'[w] # calls[w]

\* C13 (as stated): under any interleaving of lookups and stores of one
\* tenant, the hit-count write-back of a lookup changes only the hit count of
\* the record it writes: the query, embedding, response and timestamp under a
\* key stay those of the most recent store to the key.
C13_WriteBackKeepsContent ==
    [][\A w \in Workers :
        Sends(w, "process_query", {"write"}) =>
            \A k \in CacheKeys :
                (get(redis, k) # Nothing /\ get(redis', k) # Nothing) =>
                    Content(Record(redis', k)) = Content(Record(redis, k))]_vars

\* C14 (as stated): while a store is under way and another call is running,
\* the key of the new record is in the tenant's index if and only if the
\* record is readable.
C14_StoreIsAtomic ==
    \A w \in Workers :
        (/\ InCall(w, "process_query", {"sadd", "expire"})
         /\ \E v \in Workers \ {w} : calls[v] # Free)
        => (cache_key(ConcTenant, calls[w].query) \in smembers(redis, index_key(ConcTenant))
            <=> get(redis, cache_key(ConcTenant, calls[w].query)) # Nothing)

\* C16 (as stated): as clear_user_cache completes, the tenant's index is gone
\* and so is every record the clearing found in it; and the hit-count
\* write-back of a lookup that was in flight never creates a record under a
\* key that holds none.
C16_ClearLeavesNothing ==
    [][\A w \in Workers :
        /\ Sends(w, "clear_user_cache", {"delete_index", "execute"}) =>
                /\ smembers(redis', index_key(ConcTenant)) = {}
                /\ \A k \in calls[w].cached_keys : get(redis', k) = Nothing
        /\ Sends(w, "process_query", {"write"}) =>
                \A k \in CacheKeys : get(redis, k) = Nothing => get(redis', k) = Nothing]_vars

\* C17 (as stated): the record a store writes has hit_count 1, and from one
\* step of a store or of a lookup to the next the hit_count under a key never
\* decreases while the key holds a record.
C17_HitCountNeverDecreases ==
    [][/\ \A w \in Workers :
            (Sends(w, "process_query", {"resolve"}) /\ calls'[w].stored # Nothing) =>
                Record(redis', cache_key(ConcTenant, calls[w].query)).hit_count = 1
       /\ \A k \in CacheKeys :
            (get(redis, k) # Nothing /\ get(redis', k) # Nothing) =>
                Record(redis', k).hit_count >= Record(redis, k).hit_count]_vars

\* C18 (as stated): while a key holds a record, no step of a store or of a
\* lookup changes the record's query, embedding, response, timestamp or
\* tenant.
C18_WriteOnceContent ==
    [][\A k \in CacheKeys :
        (get(redis, k) # Nothing /\ get(redis', k) # Nothing) =>
            Content(Record(redis', k)) = Content(Record(redis, k))]_vars

\* two workers have stored a response for the same text, and neither has
\* returned yet: the second looked the text up before the first one's record
\* could be found
StoredBy(w, query) ==
    /\ InCall(w, "process_query", {"done"})
    /\ calls[w].query = query
    /\ calls[w].stored # Nothing

BothStored(query) == \A w \in Workers : StoredBy(w, query)

\* the tenant's records of a text that a lookup would read
Candidates(query) ==
    {k \in Readable(redis, ConcTenant) : Record(redis, k).query = query}

\* C19 (as stated): two concurrent stores of the same text by one tenant
\* leave two records of the text for a later lookup to read.
C19_TwoRecords ==
    \A query \in ConcQueries : BothStored(query) => Cardinality(Candidates(query)) = 2

\* C19 (amended): two concurrent stores of the same text by one tenant both
\* succeed and leave one record, under the key derived from the tenant and
\* the text and in the tenant's index: the entry, with hit_count 1, of one of
\* the two stores.
C19_OneRecord ==
    \A query \in ConcQueries :
        BothStored(query) =>
            /\ Candidates(query) = {cache_key(ConcTenant, query)}
            /\ \E w \in Workers :
                    Record(redis, cache_key(ConcTenant, query)) =
                        SemanticCacheEntry(query, Encoded[query], Val(calls[w].stored), now,
                                           ConcTenant)

\* the two stores wrote different responses
C19_Witness ==
    \E query \in ConcQueries :
        /\ BothStored(query)
        /\ \E v, w \in Workers : calls[v].stored # calls[w].stored

\* C20: the statistics that list the tenant's index after clear_user_cache
\* has returned, and before a store has begun, report no cached query,
\* whatever stores and lookups came before the clearing.
C20_StatsAfterClear ==
    \A w \in Workers :
        (InCall(w, "get_cache_stats", {"done"}) /\ calls[w].after_clear) =>
            /\ Val(calls[w].reply).total_cached_queries = 0
            /\ Val(calls[w].reply).cache_entries = <<>>

\* the statistics report nothing while a record, written back by a lookup
\* that was in flight during the clearing, is in Redis
C20_Witness ==
    \E w \in Workers :
        /\ InCall(w, "get_cache_stats", {"done"})
        /\ calls[w].after_clear
        /\ cleared
        /\ \E k \in CacheKeys : get(redis, k) # Nothing

\* C15 (as stated): the record a lookup returns was created by a store no
\* longer than CACHE_EXPIRATION_SECONDS ago, however many lookups have hit it
\* since.
C15_ExpiresFromCreation ==
    CacheHit => now - MatchedRecord.timestamp <= CACHE_EXPIRATION_SECONDS

(***************************************************************************)
(* Clearing and counting.                                                  *)
(***************************************************************************)
\* the call that has just run, and whether it ran with the cache connected
\* and every Redis command answered
ClearCall == last.op = "clear_user_cache"
StatsCall == last.op = "get_cache_stats"
Unfaulted == client /\ last.fault = 0

\* C21: clear_user_cache on a tenant whose index is empty or absent (the
\* cache connected, Redis answering) returns cleared_count 0, not an error,
\* and leaves the store as it was.
C21_ClearOfEmptyIndex ==
    (ClearCall /\ Unfaulted /\ smembers(last.before, index_key(last.user_id)) = {})
        => /\ last.reply = [cleared_count |-> 0]
           /\ redis = last.before

\* an empty index is cleared while the store holds a record
C21_Witness ==
    /\ ClearCall
    /\ Unfaulted
    /\ smembers(last.before, index_key(last.user_id)) = {}
    /\ \E k \in CacheKeys : get(last.before, k) # Nothing
    /\ last.reply = [cleared_count |-> 0]

\* the lines of the statistics just returned, or none
Listed == IF StatsCall /\ "cache_entries" \in DOMAIN last.reply THEN last.reply.cache_entries ELSE <<>>

\* C22: get_cache_stats changes nothing in the store (no record, no index,
\* no hit count, no expiry) and lists the tenant's entries with the hit
\* counts in non-increasing order.
C22_StatsReadOnlySorted ==
    StatsCall =>
        /\ redis = last.before
        /\ \A i, j \in 1..Len(Listed) : i < j => Listed[i].hit_count >= Listed[j].hit_count

\* Redis enumerated a record of lower hit count first, and the statistics
\* list it after the other
C22_Witness ==
    /\ StatsCall
    /\ Len(Listed) >= 2
    /\ Len(last.order) >= 2
    /\ get(redis, last.order[1]) # Nothing
    /\ get(redis, last.order[2]) # Nothing
    /\ Val(get(redis, last.order[1])).hit_count < Val(get(redis, last.order[2])).hit_count
    /\ Listed[1].hit_count > Listed[2].hit_count

(***************************************************************************)
(* The hit-count update.                                                   *)
(***************************************************************************)
\* the lookup of the request just served, had its hit-count update succeeded
UpdatedLookup ==
    find_similar_cached_query(deployment, client, last.before, last.user_id,
                              last.out.embedding, last.in.order, now, 0)

\* C23: when the hit-count update of the matched record fails (the write
\* raises), find_similar_cached_query returns the match it would have
\* returned had the update succeeded: the same response, similarity and
\* original query; the record keeps its hit count.
C23_FailedUpdateStillHits ==
    (LookedUp /\ last.in.find_fault = 3 /\ UpdatedLookup.match # Nothing) =>
        /\ Val(last.out.lookup).match = UpdatedLookup.match
        /\ last.out.ok
        /\ last.out.response = CacheHitResponse(Val(UpdatedLookup.match))
        /\ redis = last.before

\* a hit whose update failed: the record matched has the hit count it had
C23_Witness ==
    /\ CacheHit
    /\ last.in.find_fault = 3
    /\ last.out.response.source = "semantic_cache"
    /\ get(redis, ReadFrom) = get(last.before, ReadFrom)

\* C23, for the record that vanished (src/cache.py): a lookup that reads its
\* best match again and finds it gone returns the match all the same
VanishedStillHits ==
    [][\A w \in Workers :
        (/\ InCall(w, "process_query", {"reget"})
         /\ get(redis, Val(calls[w].best_match).cache_key) = Nothing
         /\ calls'[w] # calls[w])
        => /\ calls'[w].pc = "done"
           /\ calls'[w].match = calls[w].best_match
           /\ redis' = redis]_vars

\* a lookup is about to read its best match again, and the record is gone
VanishedWitness ==
    \E w \in Workers :
        /\ InCall(w, "process_query", {"reget"})
        /\ get(redis, Val(calls[w].best_match).cache_key) = Nothing

(***************************************************************************)
(* The pattern tier.                                                       *)
(***************************************************************************)
\* the request asked detect_intent, and it returned an intent
Detects == Request /\ last.out.intent # Nothing
Intent == Val(last.out.intent)

\* C24: the pattern tier executes an intent only when its confidence is
\* strictly greater than INTENT_CONFIDENCE_THRESHOLD; an intent whose
\* confidence is equal to or below it is neither executed nor cached by the
\* pattern tier, and the request goes to the LLM tier.
C24_StrictConfidenceGate ==
    Detects =>
        /\ Calls("execute_pattern") => Intent.confidence > confidence_threshold(deployment)
        /\ Intent.confidence <= confidence_threshold(deployment) =>
              /\ ~Calls("execute_pattern")
              /\ ExecutionsAt("pattern") = {}
              /\ Calls("process_with_llm")
              /\ last.out.ok => last.out.response.source = "llm_fallback"
              /\ Calls("store_semantic_cache") => Calls("execute_llm")

\* an intent whose confidence equals the gate is passed on to the LLM tier,
\* whose answer is stored
C24_Witness ==
    /\ Detects
    /\ Intent.confidence = confidence_threshold(deployment)
    /\ Calls("process_with_llm")
    /\ Calls("store_semantic_cache")
    /\ last.out.response.source = "llm_fallback"

(***************************************************************************)
(* detect_intent.  The claims are read off the call just made: the text,   *)
(* the schema view, the intent returned and the tier the request goes to.  *)
(***************************************************************************)
DetectCall == last.op = "detect_intent"

\* query.lower().strip()
QueryLower == strip(lower(last.query))

\* re.search of the n-th declared pattern on the text: Nothing, or the groups
Groups(n) ==
    search(Patterns(deployment)[n].regex, Patterns(deployment)[n].groups, QueryLower)

\* the patterns whose regex matches the text
RegexMatches == {n \in 1..Len(Patterns(deployment)) : Groups(n) # Nothing}

\* what the n-th pattern, matched, makes of the text and the schema view
IntentOf(n) == IntentFor(Patterns(deployment)[n], Val(Groups(n)), QueryLower, last.all_schemas)

\* the patterns that match and resolve: list-tables, or a table was found
Satisfied == {n \in RegexMatches : IntentOf(n) # Nothing}

Least(S) == CHOOSE n \in S : \A m \in S : n <= m

IsListTables(n) == Patterns(deployment)[n].sql_template = "LIST_TABLES"

FirstMatchUnresolved ==
    /\ DetectCall
    /\ RegexMatches # {}
    /\ ~IsListTables(Least(RegexMatches))
    /\ IntentOf(Least(RegexMatches)) = Nothing

TablesListed == AllTables(last.all_schemas)
TableNames == {TablesListed[i].table : i \in 1..Len(TablesListed)}

\* the text asks for all records of `table`, which the schema view holds
ShowsAll(table) ==
    DetectCall /\ last.query = ShowAllFrom(table) /\ table \in TableNames

\* the execute intent of the show-all pattern on a table
ShowAllIntent(e) ==
    Some([db |-> e.db, table |-> e.table,
          query |-> "SELECT * FROM " \o e.table \o " LIMIT 100;",
          confidence |-> 90, source |-> "intent_detection"])

\* table_hint.lower() in table_name.lower() or table_name.lower() in table_hint.lower()
Fits(table_name, table_hint) ==
    \/ Contains(lower(table_name), lower(table_hint))
    \/ Contains(lower(table_hint), lower(table_name))

\* the first table, in iteration order, whose name fits the hint
FirstFitting(table_hint) ==
    TablesListed[Least({i \in 1..Len(TablesListed) : Fits(TablesListed[i].table, table_hint)})]

\* C27 (as stated): for every table T of the schema view, "show all records
\* from T" gives an execute intent of confidence 0.9 on table T with the
\* statement "SELECT * FROM T LIMIT 100;", whatever other tables there are.
C27_ShowAllResolvesItsTable ==
    \A table \in MatchTables :
        ShowsAll(table) =>
            /\ last.intent_result # Nothing
            /\ Val(last.intent_result).confidence = 90
            /\ Val(last.intent_result).table = table
            /\ Val(last.intent_result).query = "SELECT * FROM " \o table \o " LIMIT 100;"

\* C27 (amended): the intent is an execute intent of confidence 0.9 on the
\* first table, in the schema's iteration order, whose name contains T or
\* is contained in T, with the statement on that table; it is T when no
\* table listed before T has such a name.
C27_ShowAllResolvesFirstFitting ==
    \A table \in MatchTables :
        ShowsAll(table) =>
            /\ last.intent_result = ShowAllIntent(FirstFitting(table))
            /\ (\A i \in 1..Len(TablesListed) :
                    Fits(TablesListed[i].table, table) => TablesListed[i].table = table)
                => Val(last.intent_result).table = table

\* the schema view lists, before T, a table whose name is part of T, and
\* the statement is on that table
C27_Witness ==
    \E table \in MatchTables :
        /\ ShowsAll(table)
        /\ last.intent_result # Nothing
        /\ Val(last.intent_result).table # table
        /\ Val(last.intent_result).confidence = 90

\* the list-tables pattern, and the databases whose alias is in the text
ListTables == CHOOSE n \in 1..Len(Patterns(deployment)) : IsListTables(n)
Named == {i \in 1..Len(last.all_schemas) : Contains(QueryLower, lower(last.all_schemas[i].db))}

\* the list-tables intent for a database
ListTablesIntent(db) ==
    Some([action |-> "list_tables", db |-> db, confidence |-> 95,
          source |-> "intent_detection"])

\* the database the list-tables pattern selects
Selected ==
    IF Named # {} THEN last.all_schemas[Least(Named)].db ELSE last.all_schemas[1].db

\* C28 (as stated): for a text that matches the list-tables pattern,
\* detect_intent selects the first database alias, in iteration order, that
\* occurs in the text without regard to case, and the first alias when none
\* occurs; the result carries no table and no statement.
C28_ListTablesSelectsDatabase ==
    (DetectCall /\ ListTables \in RegexMatches) =>
        last.intent_result = ListTablesIntent(Selected)

\* C28 (amended): so it is when no pattern declared before the list-tables
\* pattern matches the text and resolves a table; otherwise the earlier
\* pattern gives an execute intent.
C28_ListTablesUnlessEarlier ==
    (DetectCall /\ ListTables \in RegexMatches) =>
        IF \E n \in Satisfied : n < ListTables
        THEN /\ last.intent_result = IntentOf(Least(Satisfied))
             /\ "table" \in DOMAIN Val(last.intent_result)
        ELSE /\ last.intent_result = ListTablesIntent(Selected)
             /\ DOMAIN Val(last.intent_result) \cap {"table", "query"} = {}

\* the text names the second database of the schema view, and list-tables
\* selects it
C28_Witness ==
    /\ DetectCall
    /\ ListTables \in RegexMatches
    /\ Named # {}
    /\ Least(Named) > 1
    /\ last.intent_result = ListTablesIntent(Selected)

(***************************************************************************)
(* Provenance and failures.                                                *)
(***************************************************************************)
\* the tier that produced the response of the request just served
Producer ==
    IF CacheHit THEN "cache"
    ELSE IF last.out.executions # <<>> THEN LastExecution.tier
    ELSE "none"

\* the source tag of each tier, as the claim names it and as the code does
ClaimedTag(tier) ==
    CASE tier = "cache" -> "semantic_cache"
      [] tier = "pattern" -> "pattern_match"
      [] tier = "llm" -> "llm_fallback"
      [] OTHER -> None

SourceTag(tier) == IF tier = "pattern" THEN "intent_detection" ELSE ClaimedTag(tier)

FailureKind(in, out) ==
    IF in.schema = <<>>
    THEN (IF in.store_up THEN "no_data_source" ELSE "store_unreachable")
    ELSE IF \E i \in 1..Len(out.executions) : out.executions[i].tier = "llm"
    THEN "executed_failed"
    ELSE IF \E i \in 1..Len(out.calls) : out.calls[i] = "process_with_llm"
    THEN "not_understood"
    ELSE "other"

\* a server with an empty cache whose requests meet faults
FaultyContext(dep) ==
    [deployment |-> dep, client |-> TRUE, embedding_model |-> TRUE,
     redis |-> EmptyRedis, memo |-> [q \in Queries |-> "unset"], now |-> 0,
     faults |-> TRUE]

\* the requests that fail, by revision: why, and the message raised
Failures ==
    [dep \in Deployments |->
        {[kind |-> FailureKind(t.in, t), error |-> t.error] :
            t \in {x \in UNION {process_query(FaultyContext(dep), "u1", q) : q \in Queries} :
                    ~x.ok}}]

TerminalKinds == {"no_data_source", "not_understood", "executed_failed"}

\* two kinds of failure that the caller is to tell apart
ToldApart(k1, k2) ==
    /\ k1 # k2
    /\ \/ {k1, k2} \subseteq TerminalKinds
       \/ "no_data_source" \in {k1, k2}

\* C30 (as stated): the terminal failures are distinguishable by the caller:
\* no data source configured, could not understand the query, and query
\* executed but failed give pairwise different errors, and no other
\* condition (the credential store out of reach) gives the error of no data
\* source configured.
C30_FailuresDistinguishable ==
    (Request /\ ~last.out.ok) =>
        \A f \in Failures[deployment] :
            ToldApart(FailureKind(last.in, last.out), f.kind) => f.error # last.out.error

\* the three terminal failures give pairwise different errors
TerminalFailuresDiffer ==
    (Request /\ ~last.out.ok /\ FailureKind(last.in, last.out) \in TerminalKinds) =>
        \A f \in Failures[deployment] :
            (f.kind \in TerminalKinds /\ f.kind # FailureKind(last.in, last.out))
                => f.error # last.out.error

\* each of the three terminal failures happens
TerminalFailuresWitness ==
    /\ Request
    /\ ~last.out.ok
    /\ FailureKind(last.in, last.out) = "executed_failed"
    /\ TerminalKinds \subseteq {f.kind : f \in Failures[deployment]}

(***************************************************************************)
(* The external calls on their own: call_llm's retry loop (src/test.py),   *)
(* one iteration at a time, and the SQL executor and the embedding         *)
(* provider, which are called once.  An attempt ends well ("ok") or with   *)
(* the exception named.                                                    *)
(***************************************************************************)
MaxRetries == 3       \* call_llm is called with retries in 0..MaxRetries

\* requests.exceptions.RequestException and some of its subclasses:
\* raise_for_status raises HTTPError for a 4xx or 5xx status
RequestExceptions == {"ConnectionError", "Timeout", "HTTPError"}
AttemptOutcomes == {"ok"} \cup RequestExceptions \cup {"ValueError"}

\* the failures of the connection, and not of what was sent
ConnectionLevel == {"ConnectionError", "Timeout", "OperationalError"}

RECURSIVE Pow2(_)
Pow2(i) == IF i = 0 THEN 1 ELSE 2 * Pow2(i - 1)

\* a call of an external service: the attempts made, the waits between them
ExternalCall(op, retries) ==
    [op |-> op, retries |-> retries, i |-> 0, attempts |-> <<>>, slept |-> <<>>,
     result |-> "running"]

\* for i in range(retries): with nothing to iterate the function returns None
call_llm(retries) ==
    IF retries <= 0 THEN [ExternalCall("call_llm", retries) EXCEPT !.result = "None"]
    ELSE ExternalCall("call_llm", retries)

\* as Attempt, waiting as long after every failed attempt
AttemptWaitsFlat(call, outcome) ==
    IF outcome = "ok"
    THEN [call EXCEPT !.attempts = Append(@, outcome), !.result = "returned"]
    ELSE IF outcome \in RequestExceptions
    THEN (IF call.i < call.retries - 1
          THEN [call EXCEPT !.attempts = Append(@, outcome),
                            !.slept = Append(@, 2), !.i = @ + 1]
          ELSE [call EXCEPT !.attempts = Append(@, outcome), !.result = "ConnectionError"])
    ELSE [call EXCEPT !.attempts = Append(@, outcome), !.result = outcome]

\* one iteration of call_llm's loop: the POST, raise_for_status and json()
Attempt(call, outcome) ==
    IF outcome = "ok"
    THEN [call EXCEPT !.attempts = Append(@, outcome), !.result = "returned"]
    ELSE IF outcome \in RequestExceptions
    THEN (IF call.i < call.retries - 1
          THEN [call EXCEPT !.attempts = Append(@, outcome),
                            !.slept = Append(@, Pow2(call.i)), !.i = @ + 1]
          ELSE [call EXCEPT !.attempts = Append(@, outcome), !.result = "ConnectionError"])
    ELSE [call EXCEPT !.attempts = Append(@, outcome), !.result = outcome]

\* execute_sql_query: connect, read_sql; whatever is raised is raised again
\* as Exception, and nothing is tried twice
SqlOutcomes == {"ok", "OperationalError", "ProgrammingError"}

execute_sql_query(outcome) ==
    [ExternalCall("execute_sql_query", 1) EXCEPT
        !.attempts = <<outcome>>,
        !.result = IF outcome = "ok" THEN "returned" ELSE "Exception"]

\* get_query_embedding with nothing memoized: one call of encode
EmbeddingOutcomes == {"ok", "ConnectionError"}

embed_query(dep, query, outcome) ==
    [ExternalCall("get_query_embedding", 1) EXCEPT
        !.attempts = <<outcome>>,
        !.result = IF get_query_embedding(dep, TRUE, "unset", query, outcome = "ok").embedding = Nothing
                   THEN "None" ELSE "returned"]

RetryInit ==
    /\ deployment \in Deployments
    /\ workload = "retries"
    /\ client = TRUE
    /\ embedding_model = TRUE
    /\ redis = EmptyRedis
    /\ now = 0
    /\ memo = [q \in Queries |-> "unset"]
    /\ last = Idle
    /\ calls = [w \in Workers |-> Free]
    /\ cleared = FALSE

Running == last # Idle /\ last.result = "running"

\* call_llm is entered
CallLLM ==
    /\ last = Idle
    /\ workload = "retries"
    /\ \E retries \in 0..MaxRetries : last' = call_llm(retries)
    /\ UNCHANGED <<deployment, workload, client, embedding_model, redis, now, memo, conc>>

\* one iteration of its loop
AttemptLLM ==
    /\ Running
    /\ \E outcome \in AttemptOutcomes : last' = Attempt(last, outcome)
    /\ UNCHANGED <<deployment, workload, client, embedding_model, redis, now, memo, conc>>

ExecuteSqlQuery ==
    /\ last = Idle
    /\ workload = "retries"
    /\ \E outcome \in SqlOutcomes : last' = execute_sql_query(outcome)
    /\ UNCHANGED <<deployment, workload, client, embedding_model, redis, now, memo, conc>>

GetQueryEmbedding ==
    /\ last = Idle
    /\ workload = "retries"
    /\ \E query \in Queries, outcome \in EmbeddingOutcomes :
        last' = embed_query(deployment, query, outcome) @@ [query |-> query]
    /\ UNCHANGED <<deployment, workload, client, embedding_model, redis, now, memo, conc>>

\* the call has returned or raised
ReturnCall ==
    /\ last # Idle
    /\ ~Running
    /\ last' = Idle
    /\ UNCHANGED <<deployment, workload, client, embedding_model, redis, now, memo, conc>>

RetryNext == CallLLM \/ AttemptLLM \/ ExecuteSqlQuery \/ GetQueryEmbedding \/ ReturnCall

RetrySpec == RetryInit /\ [][RetryNext]_vars

\* a call of an external service that has returned or raised
CallDone(op) == last.op = op /\ last.result # "running"

LastAttempt == last.attempts[Len(last.attempts)]

\* C31 (as stated): each external call made while processing a request
\* (embedding provider, LLM resolver as llmcall calls it, SQL executor) is
\* attempted a small bounded number of times; an attempt is followed by
\* another only after a connection-level failure and an exponentially
\* growing wait, and a call does not end on a connection-level failure
\* without having been attempted again.
C31_RetriesOnConnectionFailures ==
    (\/ CallDone("execute_sql_query")
     \/ CallDone("get_query_embedding")
     \/ CallDone("call_llm") /\ last.retries = 2) =>
        /\ Len(last.attempts) <= MaxRetries
        /\ \A j \in 1..(Len(last.attempts) - 1) :
            last.attempts[j] \in ConnectionLevel /\ last.slept[j] = Pow2(j - 1)
        /\ (last.attempts # <<>> /\ LastAttempt \in ConnectionLevel)
            => Len(last.attempts) >= 2

\* C35: call_llm makes at most `retries` HTTP attempts; it returns on the
\* first successful attempt; after a failed attempt i (0-based) that is not
\* the last it waits 2^i seconds and tries again; after the last failed
\* attempt it raises ConnectionError; an exception that is not a request
\* error is raised at once, with no further attempt.
C35_CallLLMRetries ==
    (last.op = "call_llm") =>
        /\ Len(last.attempts) <= last.retries
        /\ \A j \in 1..(Len(last.attempts) - 1) : last.attempts[j] \in RequestExceptions
        /\ \A j \in 1..Len(last.slept) : last.slept[j] = Pow2(j - 1)
        /\ Len(last.slept) =
            Cardinality({j \in 1..Len(last.attempts) :
                            last.attempts[j] \in RequestExceptions /\ j < last.retries})
        /\ (last.result = "running") <=>
            /\ Len(last.attempts) < last.retries
            /\ \A j \in 1..Len(last.attempts) : last.attempts[j] \in RequestExceptions
        /\ (last.result = "returned") <=> (last.attempts # <<>> /\ LastAttempt = "ok")
        /\ (last.result = "ConnectionError") <=>
            /\ last.retries > 0
            /\ Len(last.attempts) = last.retries
            /\ LastAttempt \in RequestExceptions
        /\ (last.attempts # <<>> /\ LastAttempt \notin RequestExceptions \cup {"ok"})
            => last.result = LastAttempt

\* three attempts fail, with waits of 1 and 2 seconds, and ConnectionError
\* is raised
C35_Witness ==
    /\ last.op = "call_llm"
    /\ last.retries = 3
    /\ last.attempts = <<"ConnectionError", "Timeout", "HTTPError">>
    /\ last.slept = <<1, 2>>
    /\ last.result = "ConnectionError"

\* C32 (as stated): every live (unexpired, uncleared) cache record of a
\* tenant is reachable through the tenant's index: the index does not expire
\* while a record it references is live, after any sequence of stores and
\* hits.
C32_LiveRecordsIndexed ==
    \A k \in CacheKeys :
        redis.kv[k] # Nothing => k \in smembers(redis, index_key(TenantOf(k)))

\* C33 (as stated): in src/backend/cache.py find_similar_cached_query the
\* hit-count increment is written under the key of the record that matched,
\* also when some indexed keys have expired: a lookup that hits creates or
\* overwrites no record under any other key.
C33_WriteBackUnderMatchedKey ==
    (CacheHit /\ deployment = "backend") =>
        \A k \in CacheKeys \ {ReadFrom} : redis.kv[k] = last.before.kv[k]

\* C34 (as stated): get_cache_stats(T).total_cached_queries equals the
\* number of entries it lists, one for each live record: the keys of expired
\* records are not counted, after any sequence of stores, hits and
\* expirations.
C34_TotalCountsEntriesListed ==
    (StatsCall /\ "total_cached_queries" \in DOMAIN last.reply) =>
        last.reply.total_cached_queries = Len(last.reply.cache_entries)

\* C36 (as stated): under the default configuration
\* (INTENT_CONFIDENCE_THRESHOLD = 0.8) every pattern declared in
\* INTENT_PATTERNS can pass the confidence gate.  A pattern's confidence is
\* the same for every query and schema, so a pattern can pass the gate
\* exactly when every intent detected from it passes: whenever detect_intent
\* resolves a statement, the pattern tier executes it instead of escalating
\* to the LLM tier.
C36_EveryPatternPassesGate ==
    (DetectCall /\ deployment = "backend" /\ last.intent_result # Nothing) =>
        last.at = "execute_pattern"

\* the service is asked to list the tables
ListsTables ==
    DetectCall /\ deployment = "backend" /\ QueryLower \in {"list tables", "list all tables"}

\* the tables whose name contains "tables" or is part of it
FitTables == {i \in 1..Len(TablesListed) : Fits(TablesListed[i].table, "tables")}

\* the execute intent of the generic first pattern on a table
GenericIntent(e) ==
    Some([db |-> e.db, table |-> e.table,
          query |-> "SELECT * FROM " \o e.table \o " LIMIT 100;",
          confidence |-> 95, source |-> "intent_detection"])

\* C37 (as stated): for "list tables" and "list all tables" detect_intent
\* returns the list_tables action for every non-empty schema, whatever the
\* table names are; the generic first pattern never turns them into a
\* SELECT on some table.
C37_ListTablesWhateverTheTables ==
    ListsTables =>
        /\ last.intent_result # Nothing
        /\ Get(Val(last.intent_result), "action") = "list_tables"

\* C37 (amended): so it is for every schema in which no table name contains
\* "tables" or is contained in it; when a table has such a name the generic
\* first pattern resolves the first of them and the result is the SELECT on
\* that table.
C37_ListTablesUnlessTableFits ==
    ListsTables =>
        IF FitTables = {}
        THEN /\ last.intent_result = ListTablesIntent(Selected)
             /\ Get(Val(last.intent_result), "action") = "list_tables"
        ELSE last.intent_result = GenericIntent(TablesListed[Least(FitTables)])

\* "list all tables" is asked of a schema that holds the table "table", and
\* the intent is a SELECT on it
C37_Witness ==
    /\ ListsTables
    /\ last.query = "list all tables"
    /\ FitTables # {}
    /\ Val(last.intent_result).table = "table"
    /\ Val(last.intent_result).query = "SELECT * FROM table LIMIT 100;"

\* the reply of the LLM that the request met, and the statement in it
LLMReplied == Request /\ Calls("process_with_llm") /\ last.in.llm.kind = "content"
Raw == Val(last.in.llm.raw)

\* the replies whose statement holds one of the keywords
DangerousReplies ==
    {l \in LLMReplies :
        /\ l.kind = "content"
        /\ l.raw # Nothing
        /\ "query" \in DOMAIN Val(l.raw)
        /\ Dangerous(Val(l.raw).query)}

\* the LLM tier produced a statement that holds one of the keywords
DangerousReply == LLMReplied /\ last.in.llm \in DangerousReplies

\* the statement of the validated output went to the SQL executor
StatementPassed ==
    /\ Calls("execute_llm")
    /\ Get(Val(last.out.llm_output), "action") # "list_tables"
    /\ "query" \in DOMAIN Val(last.out.llm_output)

\* a record of the cache holds the statement
StatementCached ==
    \E k \in CacheKeys :
        /\ redis.kv[k] # Nothing
        /\ Get(Val(redis.kv[k]).val.response, "sql_query") = Raw.query

\* C38 (as stated): a statement produced by the LLM tier that holds DROP,
\* DELETE, UPDATE, INSERT, ALTER, CREATE or TRUNCATE, in any case, is never
\* passed to the SQL executor and never cached; the request fails instead.
C38_DangerousStatementFails ==
    DangerousReply =>
        /\ ~StatementPassed
        /\ ~StatementCached
        /\ ~last.out.ok

\* C38 (amended): it is never passed to the SQL executor and never cached.
\* The request fails without any execution and any cache write, unless the
\* reply also declares the action list_tables with a database: then the
\* statement is ignored and the request is answered as a list-tables
\* request.
C38_DangerousStatementNeverRuns ==
    DangerousReply =>
        /\ ~StatementPassed
        /\ ~StatementCached
        /\ IF Get(Raw, "action") = "list_tables" /\ "db" \in DOMAIN Raw
           THEN /\ Calls("execute_llm")
                /\ last.out.ok => last.out.response.action = "list_tables"
           ELSE /\ ~last.out.ok
                /\ ~Calls("execute_llm")
                /\ ~Calls("store_semantic_cache")
                /\ redis = last.before

\* the LLM resolved "drop table employees;" and the request failed
C38_Witness ==
    /\ DangerousReply
    /\ Raw.query = "drop table employees;"
    /\ ~last.out.ok
    /\ last.out.executions = <<>>

\* C39 (as stated): a failed embedding computation is not memoized: once the
\* provider works again (the model is loaded and its encode call would
\* return), get_query_embedding returns an embedding for a text it failed
\* on before, and the cache tier is not skipped for that text.
C39_FailureNotMemoized ==
    (Request /\ Calls("get_query_embedding") /\ embedding_model /\ last.in.encode_ok) =>
        /\ last.out.embedding # Nothing
        /\ Calls("find_similar_cached_query")

====
